---- MODULE Spec2Model ----
(***************************************************************************)
(* A model of the rhai scripting engine's lexer (src/src/token.rs), its    *)
(* native function registry (src/src/fn_register.rs and the Module table   *)
(* it fills) and its closure runtime (exercised by tests/closures.rs).     *)
(*                                                                         *)
(* Characters are Unicode code points (integers); a text is a sequence of  *)
(* code points.  The input stream is the sequence of characters not yet    *)
(* consumed.                                                               *)
(***************************************************************************)
EXTENDS Integers, Sequences, FiniteSets, TLC

VARIABLES
    stream,     \* lexer: characters not yet consumed (MultiInputsStream)
    state,      \* lexer: the TokenizeState
    pos,        \* lexer: the current Position
    last,       \* lexer: record of the latest get_next_token call
    prev,       \* lexer: record of the call before it
    eos,        \* lexer: number of calls that signalled end-of-stream
    panicked,   \* lexer: a call has panicked (the host unwinds)
    token,      \* syntax table: the Token whose syntax() was taken
    key,        \* syntax table: the text looked up
    found,      \* syntax table: the result of lookup_from_syntax
    functions,  \* module: the function table of the engine's global module
    log,        \* module: the registrations made so far, in order
    got,        \* module: the get_fn query made of the table as it is, and its result
    scope,      \* closures: the Scope of the running script
    cells,      \* closures: the shared (reference-counted) values
    fnptr,      \* closures: the FnPtr bound to `foo`
    called,     \* closures: record of the latest call of the FnPtr
    ast,        \* function pointers: the compiled script (statements, functions)
    ptrs,       \* function pointers: the FnPtr values the script holds
    outcome,    \* function pointers: record of the latest call or curry
    engine,     \* token iterator: the engine's disabled symbols and custom keywords
    item,       \* token iterator: record of the latest TokenIterator::next
    cursor,     \* positions: a Position value
    moved,      \* positions: record of the latest operation on it
    package,    \* packages: the module being filled by combinations
    combined,   \* packages: record of the latest combination
    resolver,   \* imports: the modules of the engine's module resolver, by path
    host_resolver, \* imports: the StaticModuleResolver the host is filling, by path
    imports,    \* imports: the modules the script imported, by alias
    resolved,   \* imports: record of the latest import or qualified lookup
    calc,       \* arithmetic: record of the latest call of an arithmetic function
    held,       \* write locks: whether each shared value is write-locked
    frame,      \* write locks: the native method call in progress, and where it is
    accessed,   \* write locks: record of the latest access to a shared value
    twin        \* second lexer: its MultiInputsStream, state, position and latest call

lexVars == <<stream, state, pos, last, prev, eos, panicked>>
tableVars == <<token, key, found>>
moduleVars == <<functions, log, got>>
closureVars == <<scope, cells, fnptr, called>>
pointerVars == <<ast, ptrs, outcome>>
iterVars == <<engine, item>>
positionVars == <<cursor, moved>>
packageVars == <<package, combined>>
resolverVars == <<resolver, host_resolver, imports, resolved>>
lockVars == <<held, frame, accessed>>
lateVars == <<calc, lockVars, twin>>
extraVars == <<iterVars, positionVars, packageVars, resolverVars, lateVars>>

\* F of the value of e: e is evaluated once, as a `let` of the code is.
Bind(e, F(_)) == CHOOSE v \in { F(x) : x \in {e} } : TRUE

-----------------------------------------------------------------------------
(* Characters *)

\* The character literals that token.rs matches on, as code points.
CH ==
    [ nul |-> 0, tab |-> 9, nl |-> 10, cr |-> 13, space |-> 32,
      bang |-> 33, dquote |-> 34, hash |-> 35, percent |-> 37, amp |-> 38,
      squote |-> 39, lparen |-> 40, rparen |-> 41, star |-> 42, plus |-> 43,
      comma |-> 44, minus |-> 45, period |-> 46, slash |-> 47,
      zero |-> 48, one |-> 49, three |-> 51, four |-> 52, five |-> 53,
      seven |-> 55, nine |-> 57,
      colon |-> 58, semi |-> 59, lt |-> 60, eq |-> 61, gt |-> 62, at |-> 64,
      A |-> 65, B |-> 66, F |-> 70, O |-> 79, U |-> 85, X |-> 88, Z |-> 90,
      lbracket |-> 91, backslash |-> 92, rbracket |-> 93, caret |-> 94,
      underscore |-> 95,
      a |-> 97, b |-> 98, c |-> 99, f |-> 102, n |-> 110, o |-> 111, r |-> 114,
      t |-> 116, u |-> 117, x |-> 120, z |-> 122,
      lbrace |-> 123, pipe |-> 124, rbrace |-> 125, tilde |-> 126 ]

\* '0'..='9'
IsDigit(c) == c >= CH.zero /\ c <= CH.nine

\* char::is_ascii_alphabetic
is_ascii_alphabetic(c) == (c >= CH.A /\ c <= CH.Z) \/ (c >= CH.a /\ c <= CH.z)

\* char::is_ascii_alphanumeric
is_ascii_alphanumeric(c) == is_ascii_alphabetic(c) \/ IsDigit(c)

\* char::is_whitespace (the Unicode White_Space property)
is_whitespace(c) ==
    \/ c >= 9 /\ c <= 13
    \/ c \in {32, 133, 160, 5760, 8232, 8233, 8239, 8287, 12288}
    \/ c >= 8192 /\ c <= 8202

is_hex_char(c) ==
    \/ c >= CH.a /\ c <= CH.f
    \/ c >= CH.A /\ c <= CH.F
    \/ IsDigit(c)

is_octal_char(c) == c >= CH.zero /\ c <= CH.seven

is_binary_char(c) == c = CH.zero \/ c = CH.one

is_id_first_alphabetic(c) == is_ascii_alphabetic(c)

is_id_continue(c) == is_ascii_alphanumeric(c) \/ c = CH.underscore

\* A faulty to_digit that counts the letters from 0 instead of 10; the
\* decoding of hex escapes (C6) tells it from to_digit.
to_digit_letters_from_zero(c, radix) ==
    LET v == IF IsDigit(c) THEN c - CH.zero
             ELSE IF c >= CH.a /\ c <= CH.z THEN c - CH.a
             ELSE IF c >= CH.A /\ c <= CH.Z THEN c - CH.A
             ELSE -1
    IN IF v >= 0 /\ v < radix THEN v ELSE -1

\* char::to_digit(radix): the digit value of c, or -1 when c is no digit
\* of that radix.
to_digit(c, radix) ==
    LET v == IF IsDigit(c) THEN c - CH.zero
             ELSE IF c >= CH.a /\ c <= CH.z THEN c - CH.a + 10
             ELSE IF c >= CH.A /\ c <= CH.Z THEN c - CH.A + 10
             ELSE -1
    IN IF v >= 0 /\ v < radix THEN v ELSE -1

\* The value above which no code point exists (char::MAX).
CharMax == 1114111

\* char::from_u32 succeeds on every scalar value: at most char::MAX and
\* not a surrogate (0xD800..=0xDFFF).
from_u32_ok(v) == v >= 0 /\ v <= CharMax /\ ~(v >= 55296 /\ v <= 57343)

\* A faulty len_utf8 that counts every character as one byte; the length
\* limit of string literals (C19) tells it from len_utf8.
len_utf8_one(c) == 1

\* char::len_utf8
len_utf8(c) == IF c < 128 THEN 1 ELSE IF c < 2048 THEN 2 ELSE IF c < 65536 THEN 3 ELSE 4

\* str::len: the length of a text in bytes of UTF-8.
RECURSIVE str_len(_)
str_len(s) == IF s = <<>> THEN 0 ELSE len_utf8(Head(s)) + str_len(Tail(s))

\* The text without its '_' characters: filter(|&&c| c != '_').
RECURSIVE StripSeparators(_)
StripSeparators(s) ==
    IF s = <<>> THEN <<>>
    ELSE IF Head(s) = CH.underscore THEN StripSeparators(Tail(s))
    ELSE <<Head(s)>> \o StripSeparators(Tail(s))

\* iter().skip(n)
Skip(s, n) == IF Len(s) <= n THEN <<>> ELSE SubSeq(s, n + 1, Len(s))

-----------------------------------------------------------------------------
(* Position *)

U16_MAX == 65535

Position_new(line, position) == [line |-> line, pos |-> position]

Position_none == [line |-> 0, pos |-> 0]

\* A faulty Position::new that asserts nothing; C25 tells it from
\* Position_new_asserts.
Position_new_asserts_nothing(line, position) == TRUE

is_none(p) == p.line = 0 /\ p.pos = 0

\* The assertion of Position::new: `line` must not be zero.
Position_new_asserts(line, position) == line # 0

\* A faulty advance that wraps around at the maximum column; C26 tells it
\* from advance.
advance_wrapping(p) == [p EXCEPT !.pos = (@ + 1) % (U16_MAX + 1)]

\* Position::advance: saturating.  (Its assertion, !is_none, holds of every
\* position the lexer holds: see PosNeverNone.)
advance(p) == IF p.pos < U16_MAX THEN [p EXCEPT !.pos = @ + 1] ELSE p

\* A faulty rewind that leaves the position where it is; the position of
\* the error for a newline in a literal (C18) tells it from rewind.
rewind_nowhere(p) == p

\* Position::rewind.  (Its assertion, pos > 0, holds where the lexer calls
\* it: right after an advance.)
rewind(p) == [p EXCEPT !.pos = @ - 1]

\* Position::new_line: saturating.
new_line(p) == IF p.line < U16_MAX THEN [line |-> p.line + 1, pos |-> 0] ELSE p

-----------------------------------------------------------------------------
(* Tokens *)

\* A token: its variant, and the payload the variant carries.
\*   int  - IntegerConstant's value, StringTooLong's limit
\*   text - the text of Identifier, StringConstant, Comment, Reserved and
\*          Custom, the character of CharConstant, the text FloatConstant
\*          was converted from, and the text a LexError carries
\*   err  - the LexError variant
Token(kind, int, text, err) == [kind |-> kind, int |-> int, text |-> text, err |-> err]

Fixed(kind) == Token(kind, 0, <<>>, "")

IntegerConstant(i) == Token("IntegerConstant", i, <<>>, "")

FloatConstant(s) == Token("FloatConstant", 0, s, "")

Identifier(s) == Token("Identifier", 0, s, "")

CharConstant(c) == Token("CharConstant", 0, <<c>>, "")

StringConstant(s) == Token("StringConstant", 0, s, "")

Comment(s) == Token("Comment", 0, s, "")

Reserved(s) == Token("Reserved", 0, s, "")

Custom(s) == Token("Custom", 0, s, "")

LexError(err, text) == Token("LexError", 0, text, err)

StringTooLong(max) == Token("LexError", max, <<>>, "StringTooLong")

EOF == Fixed("EOF")

-----------------------------------------------------------------------------
(* The token syntax table *)

\* The payload-free variants of Token, in declaration order.
FixedKinds ==
    { "LeftBrace", "RightBrace", "LeftParen", "RightParen", "LeftBracket",
      "RightBracket", "Plus", "UnaryPlus", "Minus", "UnaryMinus", "Multiply",
      "Divide", "Modulo", "PowerOf", "LeftShift", "RightShift", "SemiColon",
      "Colon", "DoubleColon", "Comma", "Period", "MapStart", "Equals", "True",
      "False", "Let", "Const", "If", "Else", "While", "Loop", "For", "In",
      "LessThan", "GreaterThan", "LessThanEqualsTo", "GreaterThanEqualsTo",
      "EqualsTo", "NotEqualsTo", "Bang", "Pipe", "Or", "XOr", "Ampersand",
      "And", "Fn", "Continue", "Break", "Return", "Throw", "PlusAssign",
      "MinusAssign", "MultiplyAssign", "DivideAssign", "LeftShiftAssign",
      "RightShiftAssign", "AndAssign", "OrAssign", "XOrAssign",
      "ModuloAssign", "PowerOfAssign", "Private", "Import", "Export", "As",
      "EOF" }

\* Token::syntax on a payload-free variant (the inner match).
syntax(kind) ==
    CASE kind = "LeftBrace" -> <<123>>    \* "{"
      [] kind = "RightBrace" -> <<125>>    \* "}"
      [] kind = "LeftParen" -> <<40>>    \* "("
      [] kind = "RightParen" -> <<41>>    \* ")"
      [] kind = "LeftBracket" -> <<91>>    \* "["
      [] kind = "RightBracket" -> <<93>>    \* "]"
      [] kind = "Plus" -> <<43>>    \* "+"
      [] kind = "UnaryPlus" -> <<43>>    \* "+"
      [] kind = "Minus" -> <<45>>    \* "-"
      [] kind = "UnaryMinus" -> <<45>>    \* "-"
      [] kind = "Multiply" -> <<42>>    \* "*"
      [] kind = "Divide" -> <<47>>    \* "/"
      [] kind = "SemiColon" -> <<59>>    \* ";"
      [] kind = "Colon" -> <<58>>    \* ":"
      [] kind = "DoubleColon" -> <<58, 58>>    \* "::"
      [] kind = "Comma" -> <<44>>    \* ","
      [] kind = "Period" -> <<46>>    \* "."
      [] kind = "MapStart" -> <<35, 123>>    \* "#{"
      [] kind = "Equals" -> <<61>>    \* "="
      [] kind = "True" -> <<116, 114, 117, 101>>    \* "true"
      [] kind = "False" -> <<102, 97, 108, 115, 101>>    \* "false"
      [] kind = "Let" -> <<108, 101, 116>>    \* "let"
      [] kind = "Const" -> <<99, 111, 110, 115, 116>>    \* "const"
      [] kind = "If" -> <<105, 102>>    \* "if"
      [] kind = "Else" -> <<101, 108, 115, 101>>    \* "else"
      [] kind = "While" -> <<119, 104, 105, 108, 101>>    \* "while"
      [] kind = "Loop" -> <<108, 111, 111, 112>>    \* "loop"
      [] kind = "For" -> <<102, 111, 114>>    \* "for"
      [] kind = "In" -> <<105, 110>>    \* "in"
      [] kind = "LessThan" -> <<60>>    \* "<"
      [] kind = "GreaterThan" -> <<62>>    \* ">"
      [] kind = "Bang" -> <<33>>    \* "!"
      [] kind = "LessThanEqualsTo" -> <<60, 61>>    \* "<="
      [] kind = "GreaterThanEqualsTo" -> <<62, 61>>    \* ">="
      [] kind = "EqualsTo" -> <<61, 61>>    \* "=="
      [] kind = "NotEqualsTo" -> <<33, 61>>    \* "!="
      [] kind = "Pipe" -> <<124>>    \* "|"
      [] kind = "Or" -> <<124, 124>>    \* "||"
      [] kind = "Ampersand" -> <<38>>    \* "&"
      [] kind = "And" -> <<38, 38>>    \* "&&"
      [] kind = "Continue" -> <<99, 111, 110, 116, 105, 110, 117, 101>>    \* "continue"
      [] kind = "Break" -> <<98, 114, 101, 97, 107>>    \* "break"
      [] kind = "Return" -> <<114, 101, 116, 117, 114, 110>>    \* "return"
      [] kind = "Throw" -> <<116, 104, 114, 111, 119>>    \* "throw"
      [] kind = "PlusAssign" -> <<43, 61>>    \* "+="
      [] kind = "MinusAssign" -> <<45, 61>>    \* "-="
      [] kind = "MultiplyAssign" -> <<42, 61>>    \* "*="
      [] kind = "DivideAssign" -> <<47, 61>>    \* "/="
      [] kind = "LeftShiftAssign" -> <<60, 60, 61>>    \* "<<="
      [] kind = "RightShiftAssign" -> <<62, 62, 61>>    \* ">>="
      [] kind = "AndAssign" -> <<38, 61>>    \* "&="
      [] kind = "OrAssign" -> <<124, 61>>    \* "|="
      [] kind = "XOrAssign" -> <<94, 61>>    \* "^="
      [] kind = "LeftShift" -> <<60, 60>>    \* "<<"
      [] kind = "RightShift" -> <<62, 62>>    \* ">>"
      [] kind = "XOr" -> <<94>>    \* "^"
      [] kind = "Modulo" -> <<37>>    \* "%"
      [] kind = "ModuloAssign" -> <<37, 61>>    \* "%="
      [] kind = "PowerOf" -> <<126>>    \* "~"
      [] kind = "PowerOfAssign" -> <<126, 61>>    \* "~="
      [] kind = "Fn" -> <<102, 110>>    \* "fn"
      [] kind = "Private" -> <<112, 114, 105, 118, 97, 116, 101>>    \* "private"
      [] kind = "Import" -> <<105, 109, 112, 111, 114, 116>>    \* "import"
      [] kind = "Export" -> <<101, 120, 112, 111, 114, 116>>    \* "export"
      [] kind = "As" -> <<97, 115>>    \* "as"
      [] kind = "EOF" -> <<123, 69, 79, 70, 125>>    \* "{EOF}"
      [] OTHER -> <<>>

\* The arms of Token::lookup_from_syntax that give a payload-free variant.
FixedSyntax ==
    << <<<<123>>, "LeftBrace">>,    \* "{"
       <<<<125>>, "RightBrace">>,    \* "}"
       <<<<40>>, "LeftParen">>,    \* "("
       <<<<41>>, "RightParen">>,    \* ")"
       <<<<91>>, "LeftBracket">>,    \* "["
       <<<<93>>, "RightBracket">>,    \* "]"
       <<<<43>>, "Plus">>,    \* "+"
       <<<<45>>, "Minus">>,    \* "-"
       <<<<42>>, "Multiply">>,    \* "*"
       <<<<47>>, "Divide">>,    \* "/"
       <<<<59>>, "SemiColon">>,    \* ";"
       <<<<58>>, "Colon">>,    \* ":"
       <<<<58, 58>>, "DoubleColon">>,    \* "::"
       <<<<44>>, "Comma">>,    \* ","
       <<<<46>>, "Period">>,    \* "."
       <<<<35, 123>>, "MapStart">>,    \* "#{"
       <<<<61>>, "Equals">>,    \* "="
       <<<<116, 114, 117, 101>>, "True">>,    \* "true"
       <<<<102, 97, 108, 115, 101>>, "False">>,    \* "false"
       <<<<108, 101, 116>>, "Let">>,    \* "let"
       <<<<99, 111, 110, 115, 116>>, "Const">>,    \* "const"
       <<<<105, 102>>, "If">>,    \* "if"
       <<<<101, 108, 115, 101>>, "Else">>,    \* "else"
       <<<<119, 104, 105, 108, 101>>, "While">>,    \* "while"
       <<<<108, 111, 111, 112>>, "Loop">>,    \* "loop"
       <<<<102, 111, 114>>, "For">>,    \* "for"
       <<<<105, 110>>, "In">>,    \* "in"
       <<<<60>>, "LessThan">>,    \* "<"
       <<<<62>>, "GreaterThan">>,    \* ">"
       <<<<33>>, "Bang">>,    \* "!"
       <<<<60, 61>>, "LessThanEqualsTo">>,    \* "<="
       <<<<62, 61>>, "GreaterThanEqualsTo">>,    \* ">="
       <<<<61, 61>>, "EqualsTo">>,    \* "=="
       <<<<33, 61>>, "NotEqualsTo">>,    \* "!="
       <<<<124>>, "Pipe">>,    \* "|"
       <<<<124, 124>>, "Or">>,    \* "||"
       <<<<38>>, "Ampersand">>,    \* "&"
       <<<<38, 38>>, "And">>,    \* "&&"
       <<<<99, 111, 110, 116, 105, 110, 117, 101>>, "Continue">>,    \* "continue"
       <<<<98, 114, 101, 97, 107>>, "Break">>,    \* "break"
       <<<<114, 101, 116, 117, 114, 110>>, "Return">>,    \* "return"
       <<<<116, 104, 114, 111, 119>>, "Throw">>,    \* "throw"
       <<<<43, 61>>, "PlusAssign">>,    \* "+="
       <<<<45, 61>>, "MinusAssign">>,    \* "-="
       <<<<42, 61>>, "MultiplyAssign">>,    \* "*="
       <<<<47, 61>>, "DivideAssign">>,    \* "/="
       <<<<60, 60, 61>>, "LeftShiftAssign">>,    \* "<<="
       <<<<62, 62, 61>>, "RightShiftAssign">>,    \* ">>="
       <<<<38, 61>>, "AndAssign">>,    \* "&="
       <<<<124, 61>>, "OrAssign">>,    \* "|="
       <<<<94, 61>>, "XOrAssign">>,    \* "^="
       <<<<60, 60>>, "LeftShift">>,    \* "<<"
       <<<<62, 62>>, "RightShift">>,    \* ">>"
       <<<<94>>, "XOr">>,    \* "^"
       <<<<37>>, "Modulo">>,    \* "%"
       <<<<37, 61>>, "ModuloAssign">>,    \* "%="
       <<<<126>>, "PowerOf">>,    \* "~"
       <<<<126, 61>>, "PowerOfAssign">>,    \* "~="
       <<<<102, 110>>, "Fn">>,    \* "fn"
       <<<<112, 114, 105, 118, 97, 116, 101>>, "Private">>,    \* "private"
       <<<<105, 109, 112, 111, 114, 116>>, "Import">>,    \* "import"
       <<<<101, 120, 112, 111, 114, 116>>, "Export">>,    \* "export"
       <<<<97, 115>>, "As">> >>    \* "as"

\* The reserved symbols and words of Token::lookup_from_syntax.
ReservedSyntax ==
    { <<61, 61, 61>>,    \* "==="
      <<33, 61, 61>>,    \* "!=="
      <<45, 62>>,    \* "->"
      <<60, 45>>,    \* "<-"
      <<61, 62>>,    \* "=>"
      <<58, 61>>,    \* ":="
      <<58, 58, 60>>,    \* "::<"
      <<40, 42>>,    \* "(*"
      <<42, 41>>,    \* "*)"
      <<35>>,    \* "#"
      <<112, 117, 98, 108, 105, 99>>,    \* "public"
      <<110, 101, 119>>,    \* "new"
      <<117, 115, 101>>,    \* "use"
      <<109, 111, 100, 117, 108, 101>>,    \* "module"
      <<112, 97, 99, 107, 97, 103, 101>>,    \* "package"
      <<118, 97, 114>>,    \* "var"
      <<115, 116, 97, 116, 105, 99>>,    \* "static"
      <<115, 104, 97, 114, 101, 100>>,    \* "shared"
      <<119, 105, 116, 104>>,    \* "with"
      <<100, 111>>,    \* "do"
      <<101, 97, 99, 104>>,    \* "each"
      <<116, 104, 101, 110>>,    \* "then"
      <<103, 111, 116, 111>>,    \* "goto"
      <<101, 120, 105, 116>>,    \* "exit"
      <<115, 119, 105, 116, 99, 104>>,    \* "switch"
      <<109, 97, 116, 99, 104>>,    \* "match"
      <<99, 97, 115, 101>>,    \* "case"
      <<116, 114, 121>>,    \* "try"
      <<99, 97, 116, 99, 104>>,    \* "catch"
      <<100, 101, 102, 97, 117, 108, 116>>,    \* "default"
      <<118, 111, 105, 100>>,    \* "void"
      <<110, 117, 108, 108>>,    \* "null"
      <<110, 105, 108>>,    \* "nil"
      <<115, 112, 97, 119, 110>>,    \* "spawn"
      <<103, 111>>,    \* "go"
      <<115, 121, 110, 99>>,    \* "sync"
      <<97, 115, 121, 110, 99>>,    \* "async"
      <<97, 119, 97, 105, 116>>,    \* "await"
      <<121, 105, 101, 108, 100>> }    \* "yield"

\* KEYWORD_PRINT, KEYWORD_DEBUG, KEYWORD_TYPE_OF, KEYWORD_EVAL,
\* KEYWORD_FN_PTR, KEYWORD_FN_PTR_CALL, KEYWORD_FN_PTR_CURRY,
\* KEYWORD_IS_SHARED and KEYWORD_THIS of the engine.
KeywordSyntax ==
    { <<112, 114, 105, 110, 116>>,    \* "print"
      <<100, 101, 98, 117, 103>>,    \* "debug"
      <<116, 121, 112, 101, 95, 111, 102>>,    \* "type_of"
      <<101, 118, 97, 108>>,    \* "eval"
      <<70, 110>>,    \* "Fn"
      <<99, 97, 108, 108>>,    \* "call"
      <<99, 117, 114, 114, 121>>,    \* "curry"
      <<105, 115, 95, 115, 104, 97, 114, 101, 100>>,    \* "is_shared"
      <<116, 104, 105, 115>> }    \* "this"

\* Option<Token>: None is the token of kind "None".
NoToken == Fixed("None")

\* A faulty lookup_from_syntax in which `fn` and `private` are reserved
\* words, not keywords; the round trip of syntax() (C7) tells it from
\* lookup_from_syntax.
lookup_from_syntax_no_function(s) ==
    IF s \in { <<102, 110>>, <<112, 114, 105, 118, 97, 116, 101>> }     \* "fn", "private"
    THEN Reserved(s)
    ELSE IF \E i \in 1..Len(FixedSyntax) : FixedSyntax[i][1] = s
    THEN Fixed(FixedSyntax[CHOOSE i \in 1..Len(FixedSyntax) : FixedSyntax[i][1] = s][2])
    ELSE IF s \in ReservedSyntax \/ s \in KeywordSyntax THEN Reserved(s)
    ELSE NoToken

\* Token::lookup_from_syntax
lookup_from_syntax(s) ==
    IF \E i \in 1..Len(FixedSyntax) : FixedSyntax[i][1] = s
    THEN Fixed(FixedSyntax[CHOOSE i \in 1..Len(FixedSyntax) : FixedSyntax[i][1] = s][2])
    ELSE IF s \in ReservedSyntax \/ s \in KeywordSyntax THEN Reserved(s)
    ELSE NoToken

\* Token::is_next_unary
is_next_unary(tok) ==
    tok.kind \in
        { "LexError", "LeftBrace", "LeftParen", "LeftBracket", "Plus",
          "UnaryPlus", "Minus", "UnaryMinus", "Multiply", "Divide", "Comma",
          "Period", "Equals", "LessThan", "GreaterThan", "Bang",
          "LessThanEqualsTo", "GreaterThanEqualsTo", "EqualsTo",
          "NotEqualsTo", "Pipe", "Or", "Ampersand", "And", "If", "While",
          "PlusAssign", "MinusAssign", "MultiplyAssign", "DivideAssign",
          "LeftShiftAssign", "RightShiftAssign", "AndAssign", "OrAssign",
          "XOrAssign", "LeftShift", "RightShift", "XOr", "Modulo",
          "ModuloAssign", "Return", "Throw", "PowerOf", "In",
          "PowerOfAssign" }

\* is_valid_identifier: the loop, with its first_alphabetic flag.
RECURSIVE is_valid_identifier_from(_, _)
is_valid_identifier_from(name, first_alphabetic) ==
    IF name = <<>> THEN first_alphabetic
    ELSE LET ch == Head(name) IN
         IF ch = CH.underscore THEN is_valid_identifier_from(Tail(name), first_alphabetic)
         ELSE IF is_id_first_alphabetic(ch) THEN is_valid_identifier_from(Tail(name), TRUE)
         ELSE IF ~first_alphabetic THEN FALSE
         ELSE IF is_ascii_alphanumeric(ch) THEN is_valid_identifier_from(Tail(name), first_alphabetic)
         ELSE FALSE

\* A faulty is_valid_identifier that does not ask for a letter; the runs
\* of underscores (C24) tell it from is_valid_identifier.
is_valid_identifier_no_letter(name) == is_valid_identifier_from(name, TRUE)

is_valid_identifier(name) == is_valid_identifier_from(name, FALSE)

-----------------------------------------------------------------------------
(* Conversion of numeric text: INT::from_str_radix, INT::from_str and       *)
(* FLOAT::from_str.  INT is i64.  A number is held as the sequence of its   *)
(* digit values until it is known to fit, so that the range test is exact.  *)

\* The digits of i64::MAX in the given radix.
INT_MAX_DIGITS(radix) ==
    CASE radix = 10 -> <<9,2,2,3,3,7,2,0,3,6,8,5,4,7,7,5,8,0,7>>
      [] radix = 16 -> <<7>> \o [i \in 1..15 |-> 15]
      [] radix = 8  -> [i \in 1..21 |-> 7]
      [] radix = 2  -> [i \in 1..63 |-> 1]

\* The digits of -i64::MIN in radix 10.
INT_MIN_DIGITS == <<9,2,2,3,3,7,2,0,3,6,8,5,4,7,7,5,8,0,8>>

RECURSIVE StripLeadingZeros(_)
StripLeadingZeros(d) ==
    IF d # <<>> /\ Head(d) = 0 THEN StripLeadingZeros(Tail(d)) ELSE d

\* a <= b for digit sequences of the same length.
RECURSIVE DigitsLeq(_, _)
DigitsLeq(a, b) ==
    IF a = <<>> THEN TRUE
    ELSE IF Head(a) < Head(b) THEN TRUE
    ELSE IF Head(a) > Head(b) THEN FALSE
    ELSE DigitsLeq(Tail(a), Tail(b))

\* The magnitude d (digit values) does not exceed the limit.
FitsMagnitude(d, limit) ==
    Bind(StripLeadingZeros(d), LAMBDA s :
        \/ Len(s) < Len(limit)
        \/ Len(s) = Len(limit) /\ DigitsLeq(s, limit))

RECURSIVE DigitsValue(_, _, _)
DigitsValue(d, radix, acc) ==
    IF d = <<>> THEN acc ELSE DigitsValue(Tail(d), radix, acc * radix + Head(d))

\* i64::from_str_radix(src, radix): [ok, val].  An optional sign, then at
\* least one digit, all of them digits of the radix, the value within i64.
from_str_radix(src, radix) ==
    LET signed == src # <<>> /\ Head(src) \in {CH.plus, CH.minus}
        neg    == src # <<>> /\ Head(src) = CH.minus
        body   == IF signed THEN Tail(src) ELSE src
        limit  == IF neg THEN INT_MIN_DIGITS ELSE INT_MAX_DIGITS(radix)
    IN Bind([i \in 1..Len(body) |-> to_digit(body[i], radix)], LAMBDA digits :
         IF body = <<>> \/ \E i \in 1..Len(digits) : digits[i] < 0
           THEN [ok |-> FALSE, val |-> 0]
         ELSE IF ~FitsMagnitude(digits, limit)
           THEN [ok |-> FALSE, val |-> 0]
         ELSE [ok |-> TRUE,
               val |-> IF neg THEN 0 - DigitsValue(digits, radix, 0)
                              ELSE DigitsValue(digits, radix, 0)])

\* i64::from_str
from_str(src) == from_str_radix(src, 10)

\* f64::from_str on the texts the lexer gives it (an optional '-', digits
\* and '.' characters): it succeeds when there is at most one '.'.  The
\* value is denoted by the text it was converted from.
FLOAT_from_str(src) ==
    LET body == IF src # <<>> /\ Head(src) = CH.minus THEN Tail(src) ELSE src
        dots == Cardinality({i \in 1..Len(body) : body[i] = CH.period})
    IN /\ body # <<>>
       /\ \A i \in 1..Len(body) : IsDigit(body[i]) \/ body[i] = CH.period
       /\ \E i \in 1..Len(body) : IsDigit(body[i])
       /\ dots <= 1

-----------------------------------------------------------------------------
(* The input stream *)

\* InputStream::peek_next, with '\0' for None: peek_next().unwrap_or('\0')
peek_or_nul(s) == IF s = <<>> THEN CH.nul ELSE Head(s)

\* InputStream::get_next leaves the rest of the stream.
rest(s) == IF s = <<>> THEN <<>> ELSE Tail(s)

-----------------------------------------------------------------------------
(* scan_comment: the loop, from the stream s, the comment level, the        *)
(* position p and the comment text collected so far.                        *)

RECURSIVE scan_comment(_, _, _, _, _)
scan_comment(s, level, p, comment, include_comments) ==
    IF s = <<>>
    THEN [stream |-> s, level |-> level, pos |-> p, comment |-> comment]
    ELSE
      LET c  == Head(s)
          s1 == Tail(s)
          p1 == advance(p)
          m1 == IF include_comments THEN Append(comment, c) ELSE comment
          \* the second character that the '/' and '*' arms take
          has2 == s1 # <<>>
          c2 == peek_or_nul(s1)
          m2 == IF has2 /\ include_comments THEN Append(m1, c2) ELSE m1
          \* one turn of the loop
          turn == IF c = CH.slash
                  THEN [stream |-> rest(s1),
                        level  |-> IF has2 /\ c2 = CH.star THEN level + 1 ELSE level,
                        pos    |-> advance(p1), comment |-> m2]
                ELSE IF c = CH.star
                  THEN [stream |-> rest(s1),
                        level  |-> IF has2 /\ c2 = CH.slash THEN level - 1 ELSE level,
                        pos    |-> advance(p1), comment |-> m2]
                ELSE IF c = CH.nl
                  THEN [stream |-> s1, level |-> level, pos |-> new_line(p1), comment |-> m1]
                ELSE [stream |-> s1, level |-> level, pos |-> p1, comment |-> m1]
      IN Bind(turn, LAMBDA r :
           IF r.level = 0 THEN r
           ELSE scan_comment(r.stream, r.level, r.pos, r.comment, include_comments))

-----------------------------------------------------------------------------
(* parse_string_literal *)

StrOk(s, p, text) ==
    [stream |-> s, pos |-> p, ok |-> TRUE, text |-> text, err |-> NoToken, epos |-> p,
     eof |-> FALSE]

StrErr(s, p, err, epos) ==
    [stream |-> s, pos |-> p, ok |-> FALSE, text |-> <<>>, err |-> err, epos |-> epos,
     eof |-> FALSE]

\* The error of a get_next that gave None.
StrEnd(p, err) == [StrErr(<<>>, p, err, p) EXCEPT !.eof = TRUE]

\* The `for _ in 0..len` loop of a \x, \u or \U escape, with k digits still
\* to read.  out_val is a u32; it is held exactly up to char::MAX, and once
\* above it (where char::from_u32 fails whatever follows) it is left alone.
RECURSIVE hex_escape(_, _, _, _, _)
hex_escape(s, p, seq, out_val, k) ==
    IF k = 0
    THEN [stream |-> s, pos |-> p, ok |-> from_u32_ok(out_val), val |-> out_val,
          err |-> LexError("MalformedEscapeSequence", seq), epos |-> p, eof |-> FALSE]
    ELSE IF s = <<>>
    THEN [stream |-> s, pos |-> p, ok |-> FALSE, val |-> 0,
          err |-> LexError("MalformedEscapeSequence", seq), epos |-> p, eof |-> TRUE]
    ELSE
      LET c    == Head(s)
          seq1 == Append(seq, c)
          p1   == advance(p)
          d    == to_digit(c, 16)
      IN IF d < 0
         THEN [stream |-> Tail(s), pos |-> p1, ok |-> FALSE, val |-> 0,
               err |-> LexError("MalformedEscapeSequence", seq1), epos |-> p1, eof |-> FALSE]
         ELSE hex_escape(Tail(s), p1, seq1,
                         IF out_val > CharMax THEN out_val ELSE out_val * 16 + d,
                         k - 1)

\* The main loop, from the stream s and position p, with the result and
\* escape buffers.
RECURSIVE parse_string_literal_loop(_, _, _, _, _, _)
parse_string_literal_loop(s, p, result, escape, max_string_size, enclosing_char) ==
    IF s = <<>> THEN StrEnd(p, LexError("UnterminatedString", <<>>))
    ELSE
      LET next_char == Head(s)
          s1 == Tail(s)
          p1 == advance(p)
          again(r, e) ==
              parse_string_literal_loop(s1, p1, r, e, max_string_size, enclosing_char)
      IN
      IF max_string_size > 0 /\ Len(result) > max_string_size
        THEN StrErr(s1, p1, StringTooLong(max_string_size), p1)
      \* \...
      ELSE IF next_char = CH.backslash /\ escape = <<>>
        THEN again(result, <<CH.backslash>>)
      \* \\
      ELSE IF next_char = CH.backslash /\ escape # <<>>
        THEN again(Append(result, CH.backslash), <<>>)
      \* \t
      ELSE IF next_char = CH.t /\ escape # <<>>
        THEN again(Append(result, CH.tab), <<>>)
      \* \n
      ELSE IF next_char = CH.n /\ escape # <<>>
        THEN again(Append(result, CH.nl), <<>>)
      \* \r
      ELSE IF next_char = CH.r /\ escape # <<>>
        THEN again(Append(result, CH.cr), <<>>)
      \* \x??, \u????, \U????????
      ELSE IF next_char \in {CH.x, CH.u, CH.U} /\ escape # <<>>
        THEN LET len == IF next_char = CH.x THEN 2 ELSE IF next_char = CH.u THEN 4 ELSE 8
             IN Bind(hex_escape(s1, p1, Append(escape, next_char), 0, len), LAMBDA h :
                  IF ~h.ok
                  THEN [StrErr(h.stream, h.pos, h.err, h.epos) EXCEPT !.eof = h.eof]
                  ELSE parse_string_literal_loop(h.stream, h.pos, Append(result, h.val),
                                                 <<>>, max_string_size, enclosing_char))
      \* \{enclosing_char} - escaped
      ELSE IF next_char = enclosing_char /\ escape # <<>>
        THEN again(Append(result, next_char), <<>>)
      \* Close wrapper
      ELSE IF next_char = enclosing_char /\ escape = <<>>
        THEN IF max_string_size > 0 /\ str_len(result) > max_string_size
               THEN StrErr(s1, p1, StringTooLong(max_string_size), p1)
               ELSE StrOk(s1, p1, result)
      \* Unknown escape sequence
      ELSE IF escape # <<>>
        THEN StrErr(s1, p1, LexError("MalformedEscapeSequence", escape), p1)
      \* Cannot have new-lines inside string literals
      ELSE IF next_char = CH.nl
        THEN StrErr(s1, rewind(p1), LexError("UnterminatedString", <<>>), rewind(p1))
      \* All other characters
      ELSE again(Append(result, next_char), <<>>)

\* A faulty parse_string_literal that takes every literal to be wrapped
\* in double quotes; char literals (C20) tell it from parse_string_literal.
parse_string_literal_dquote(s, max_string_size, p, enclosing_char) ==
    parse_string_literal_loop(s, p, <<>>, <<>>, max_string_size, CH.dquote)

parse_string_literal(s, max_string_size, p, enclosing_char) ==
    parse_string_literal_loop(s, p, <<>>, <<>>, max_string_size, enclosing_char)

-----------------------------------------------------------------------------
(* Numeric literals: the scan of get_next_token_inner's digit arm           *)

\* A loop that takes characters while they satisfy valid(_):
\* push the character and eat_next.
RECURSIVE take_while_radix(_, _, _, _)
take_while_radix(s, p, result, radix) ==
    IF s # <<>> /\ ( \/ radix = 16 /\ is_hex_char(Head(s))
                     \/ radix = 8  /\ is_octal_char(Head(s))
                     \/ radix = 2  /\ is_binary_char(Head(s)) )
    THEN take_while_radix(Tail(s), advance(p), Append(result, Head(s)), radix)
    ELSE [stream |-> s, pos |-> p, result |-> result]

\* The inner loop after a '.': digits and '_'.
RECURSIVE take_float_digits(_, _, _)
take_float_digits(s, p, result) ==
    IF s # <<>> /\ (IsDigit(Head(s)) \/ Head(s) = CH.underscore)
    THEN take_float_digits(Tail(s), advance(p), Append(result, Head(s)))
    ELSE [stream |-> s, pos |-> p, result |-> result]

\* A faulty radix table that reads `0o` as hexadecimal; the value of
\* integer literals (C4) tells it from radix_of.
radix_of_octal_as_hex(ch) ==
    IF ch \in {CH.x, CH.X} THEN 16
    ELSE IF ch \in {CH.o, CH.O} THEN 16
    ELSE IF ch \in {CH.b, CH.B} THEN 2
    ELSE 0

\* The radix of a prefix character, 0 when it is none.
radix_of(ch) ==
    IF ch \in {CH.x, CH.X} THEN 16
    ELSE IF ch \in {CH.o, CH.O} THEN 8
    ELSE IF ch \in {CH.b, CH.B} THEN 2
    ELSE 0

\* `while let Some(next_char) = stream.peek_next()`: c is the literal's
\* first character, radix_base is 0 for None.
RECURSIVE scan_number(_, _, _, _, _)
scan_number(s, p, result, radix_base, c) ==
    IF s = <<>>
    THEN [stream |-> s, pos |-> p, result |-> result, radix_base |-> radix_base]
    ELSE
      LET next_char == Head(s) IN
      IF IsDigit(next_char) \/ next_char = CH.underscore
        THEN scan_number(Tail(s), advance(p), Append(result, next_char), radix_base, c)
      ELSE IF next_char = CH.period
        THEN Bind(take_float_digits(Tail(s), advance(p), Append(result, next_char)),
                  LAMBDA f : scan_number(f.stream, f.pos, f.result, radix_base, c))
      \* 0x????, 0o????, 0b????
      ELSE IF radix_of(next_char) # 0 /\ c = CH.zero
        THEN Bind(take_while_radix(Tail(s), advance(p), Append(result, next_char),
                                   radix_of(next_char)),
                  LAMBDA d : scan_number(d.stream, d.pos, d.result, radix_of(next_char), c))
      ELSE [stream |-> s, pos |-> p, result |-> result, radix_base |-> radix_base]

\* A faulty "Parse number" whose MalformedNumber carries the text the
\* conversions were given, without the separators; the text an error
\* carries (C21) tells it from number_token.
number_token_stripped(scanned, radix_base, negated) ==
    Bind(IF negated THEN <<CH.minus>> \o scanned ELSE scanned, LAMBDA result :
      IF radix_base # 0
      THEN Bind(StripSeparators(Skip(result, 2)), LAMBDA out :
           Bind(from_str_radix(out, radix_base), LAMBDA i :
             IF i.ok THEN IntegerConstant(i.val)
             ELSE LexError("MalformedNumber", out)))
      ELSE Bind(StripSeparators(result), LAMBDA out :
           Bind(from_str(out), LAMBDA i :
             IF i.ok THEN IntegerConstant(i.val)
             ELSE IF FLOAT_from_str(out) THEN FloatConstant(out)
             ELSE LexError("MalformedNumber", out))))

\* "Parse number": the token of the scanned text.
number_token(scanned, radix_base, negated) ==
    Bind(IF negated THEN <<CH.minus>> \o scanned ELSE scanned, LAMBDA result :
      IF radix_base # 0
      THEN Bind(StripSeparators(Skip(result, 2)), LAMBDA out :
           Bind(from_str_radix(out, radix_base), LAMBDA i :
             IF i.ok THEN IntegerConstant(i.val)
             ELSE LexError("MalformedNumber", result)))
      ELSE Bind(StripSeparators(result), LAMBDA out :
           Bind(from_str(out), LAMBDA i :
             IF i.ok THEN IntegerConstant(i.val)
             \* If integer parsing is unnecessary, try float instead
             ELSE IF FLOAT_from_str(out) THEN FloatConstant(out)
             ELSE LexError("MalformedNumber", result))))

-----------------------------------------------------------------------------
(* get_identifier *)

RECURSIVE take_id_continue(_, _, _)
take_id_continue(s, p, result) ==
    IF s # <<>> /\ is_id_continue(Head(s))
    THEN take_id_continue(Tail(s), advance(p), Append(result, Head(s)))
    ELSE [stream |-> s, pos |-> p, result |-> result]

\* The token of an identifier text.
identifier_token(identifier) ==
    IF ~is_valid_identifier(identifier)
    THEN LexError("MalformedIdentifier", identifier)
    ELSE IF lookup_from_syntax(identifier) # NoToken
    THEN lookup_from_syntax(identifier)
    ELSE Identifier(identifier)

-----------------------------------------------------------------------------
(* get_next_token_inner *)

\* What a call leaves and returns: the stream, state and position after
\* it, and Some((tok, tpos)), None, or a panic.
\* `ahead` is 1 when the last thing the call did with the stream was to look
\* past the characters it consumed: a peek_next, or a get_next that gave None.
Return(s, st, p, status, tok, tpos) ==
    [stream |-> s, state |-> st, pos |-> p, status |-> status, tok |-> tok, tpos |-> tpos,
     ahead |-> 0]

\* The call ended on a look past what it consumed, or did not.
Looked(r, past) == [r EXCEPT !.ahead = IF past THEN 1 ELSE 0]

Some(s, st, p, tok, tpos) == Return(s, st, p, "Some", tok, tpos)

\* The rest of a '//' comment: up to and including the '\n'.
RECURSIVE scan_line_comment(_, _, _, _)
scan_line_comment(s, p, comment, include_comments) ==
    IF s = <<>> THEN [stream |-> s, pos |-> p, comment |-> comment, eof |-> TRUE]
    ELSE IF Head(s) = CH.nl
      THEN [stream |-> Tail(s), pos |-> new_line(p), comment |-> comment, eof |-> FALSE]
    ELSE scan_line_comment(Tail(s), advance(p),
                           IF include_comments THEN Append(comment, Head(s)) ELSE comment,
                           include_comments)

\* `while let Some(c) = stream.get_next()` and the code after it.
RECURSIVE token_loop(_, _, _, _)
token_loop(s, st, p, negated) ==
    IF s = <<>>
    THEN LET p1 == advance(p) IN
         IF st.end_with_none THEN Looked(Return(s, st, p1, "None", NoToken, p1), TRUE)
         ELSE Looked(Some(s, st, p1, EOF, p1), TRUE)
    ELSE
      LET c  == Head(s)
          s1 == Tail(s)
          p1 == advance(p)
          start_pos == p1
          n  == peek_or_nul(s1)
          \* after one eat_next
          s2 == rest(s1)
          p2 == advance(p1)
          \* after two
          s3 == rest(s2)
          p3 == advance(p2)
          n2 == peek_or_nul(s2)
          one(kind) == Some(s1, st, p1, Fixed(kind), start_pos)
          two(kind) == Some(s2, st, p2, Fixed(kind), start_pos)
          \* two characters, and a peek_next at the third that was left
          two_peeked(kind) == Looked(two(kind), TRUE)
          three(kind) == Some(s3, st, p3, Fixed(kind), start_pos)
      IN
      \* the match looks at the character after c before any arm runs: a
      \* call that consumes no more than c ends on that peek_next
      Bind((
      CASE c = CH.nl -> token_loop(s1, st, new_line(p1), negated)
        \* digit ...
        [] IsDigit(c) ->
            Bind(scan_number(s1, p1, <<c>>, 0, c), LAMBDA num :
              Looked(Some(num.stream, st, num.pos,
                          number_token(num.result, num.radix_base, negated), start_pos),
                     TRUE))
        \* letter or underscore ...
        [] is_ascii_alphabetic(c) \/ c = CH.underscore ->
            Bind(take_id_continue(s1, p1, <<c>>), LAMBDA id :
              Looked(Some(id.stream, st, id.pos, identifier_token(id.result), start_pos),
                     TRUE))
        \* " - string literal
        [] c = CH.dquote ->
            Bind(parse_string_literal(s1, st.max_string_size, p1, CH.dquote), LAMBDA r :
              IF r.ok THEN Some(r.stream, st, r.pos, StringConstant(r.text), start_pos)
              ELSE Looked(Some(r.stream, st, r.pos, r.err, r.epos), r.eof))
        \* ' - character literal
        [] c = CH.squote ->
            IF n = CH.squote
            THEN Some(s1, st, p1, LexError("MalformedChar", <<>>), start_pos)
            ELSE Bind(parse_string_literal(s1, st.max_string_size, p1, CH.squote), LAMBDA r :
                   IF ~r.ok THEN Looked(Some(r.stream, st, r.pos, r.err, r.epos), r.eof)
                   \* chars.next().unwrap()
                   ELSE IF r.text = <<>>
                     THEN Return(r.stream, st, r.pos, "Panic", NoToken, r.pos)
                   ELSE IF Len(r.text) > 1
                     THEN Some(r.stream, st, r.pos, LexError("MalformedChar", r.text), start_pos)
                   ELSE Some(r.stream, st, r.pos, CharConstant(r.text[1]), start_pos))
        \* Braces
        [] c = CH.lbrace -> one("LeftBrace")
        [] c = CH.rbrace -> one("RightBrace")
        \* Parentheses
        [] c = CH.lparen ->
            IF n = CH.star THEN Some(s2, st, p2, Reserved(<<CH.lparen, CH.star>>), start_pos)
            ELSE one("LeftParen")
        [] c = CH.rparen -> one("RightParen")
        \* Indexing
        [] c = CH.lbracket -> one("LeftBracket")
        [] c = CH.rbracket -> one("RightBracket")
        \* Map literal
        [] c = CH.hash ->
            IF n = CH.lbrace THEN two("MapStart")
            ELSE Some(s1, st, p1, Reserved(<<CH.hash>>), start_pos)
        \* Operators
        [] c = CH.plus ->
            IF n = CH.eq THEN two("PlusAssign")
            ELSE IF ~st.non_unary THEN one("UnaryPlus")
            ELSE one("Plus")
        [] c = CH.minus ->
            IF IsDigit(n) /\ ~st.non_unary THEN token_loop(s1, st, p1, TRUE)
            ELSE IF IsDigit(n) THEN one("Minus")
            ELSE IF n = CH.eq THEN two("MinusAssign")
            ELSE IF n = CH.gt THEN Some(s2, st, p2, Reserved(<<CH.minus, CH.gt>>), start_pos)
            ELSE IF ~st.non_unary THEN one("UnaryMinus")
            ELSE one("Minus")
        [] c = CH.star ->
            IF n = CH.rparen THEN Some(s2, st, p2, Reserved(<<CH.star, CH.rparen>>), start_pos)
            ELSE IF n = CH.eq THEN two("MultiplyAssign")
            ELSE one("Multiply")
        \* Comments
        [] c = CH.slash ->
            IF n = CH.slash
            THEN Bind(scan_line_comment(s2, p2,
                              IF st.include_comments THEN <<CH.slash, CH.slash>> ELSE <<>>,
                              st.include_comments), LAMBDA r :
                   IF st.include_comments
                   THEN Looked(Some(r.stream, st, r.pos, Comment(r.comment), start_pos),
                               r.eof)
                   ELSE token_loop(r.stream, st, r.pos, negated))
            ELSE IF n = CH.star
            THEN Bind(scan_comment(s2, 1, p2,
                              IF st.include_comments THEN <<CH.slash, CH.star>> ELSE <<>>,
                              st.include_comments), LAMBDA r :
                 Bind([st EXCEPT !.comment_level = r.level], LAMBDA st1 :
                   IF st.include_comments
                   THEN Looked(Some(r.stream, st1, r.pos, Comment(r.comment), start_pos),
                               r.level > 0)
                   ELSE token_loop(r.stream, st1, r.pos, negated)))
            ELSE IF n = CH.eq THEN two("DivideAssign")
            ELSE one("Divide")
        [] c = CH.semi -> one("SemiColon")
        [] c = CH.comma -> one("Comma")
        [] c = CH.period -> one("Period")
        [] c = CH.eq ->
            IF n = CH.eq
            THEN \* Warn against `===`
                 IF s2 # <<>> /\ n2 = CH.eq
                 THEN Some(s3, st, p3, Reserved(<<CH.eq, CH.eq, CH.eq>>), start_pos)
                 ELSE two_peeked("EqualsTo")
            ELSE IF n = CH.gt THEN Some(s2, st, p2, Reserved(<<CH.eq, CH.gt>>), start_pos)
            ELSE one("Equals")
        [] c = CH.colon ->
            IF n = CH.colon
            THEN IF s2 # <<>> /\ n2 = CH.lt
                 THEN Some(s3, st, p3, Reserved(<<CH.colon, CH.colon, CH.lt>>), start_pos)
                 ELSE two_peeked("DoubleColon")
            ELSE IF n = CH.eq THEN Some(s2, st, p2, Reserved(<<CH.colon, CH.eq>>), start_pos)
            ELSE one("Colon")
        [] c = CH.lt ->
            IF n = CH.eq THEN two("LessThanEqualsTo")
            ELSE IF n = CH.minus THEN Some(s2, st, p2, Reserved(<<CH.lt, CH.minus>>), start_pos)
            ELSE IF n = CH.lt
            THEN IF s2 # <<>> /\ n2 = CH.eq THEN three("LeftShiftAssign") ELSE two_peeked("LeftShift")
            ELSE one("LessThan")
        [] c = CH.gt ->
            IF n = CH.eq THEN two("GreaterThanEqualsTo")
            ELSE IF n = CH.gt
            THEN IF s2 # <<>> /\ n2 = CH.eq THEN three("RightShiftAssign") ELSE two_peeked("RightShift")
            ELSE one("GreaterThan")
        [] c = CH.bang ->
            IF n = CH.eq
            THEN IF s2 # <<>> /\ n2 = CH.eq
                 THEN Some(s3, st, p3, Reserved(<<CH.bang, CH.eq, CH.eq>>), start_pos)
                 ELSE two_peeked("NotEqualsTo")
            ELSE one("Bang")
        [] c = CH.pipe ->
            IF n = CH.pipe THEN two("Or")
            ELSE IF n = CH.eq THEN two("OrAssign")
            ELSE one("Pipe")
        [] c = CH.amp ->
            IF n = CH.amp THEN two("And")
            ELSE IF n = CH.eq THEN two("AndAssign")
            ELSE one("Ampersand")
        [] c = CH.caret ->
            IF n = CH.eq THEN two("XOrAssign") ELSE one("XOr")
        [] c = CH.percent ->
            IF n = CH.eq THEN two("ModuloAssign") ELSE one("Modulo")
        [] c = CH.tilde ->
            IF n = CH.eq THEN two("PowerOfAssign") ELSE one("PowerOf")
        [] c = CH.at -> Some(s1, st, p1, Reserved(<<CH.at>>), start_pos)
        \* ('\0', _) => unreachable!()
        [] c = CH.nul -> Return(s1, st, p1, "Panic", NoToken, start_pos)
        [] OTHER ->
            IF is_whitespace(c) THEN token_loop(s1, st, p1, negated)
            ELSE Some(s1, st, p1, LexError("UnexpectedInput", <<c>>), start_pos)
      ), LAMBDA r : IF Len(r.stream) = Len(s1) THEN Looked(r, TRUE) ELSE r)

\* get_next_token_inner
get_next_token_inner(s, st, p) ==
    IF st.comment_level > 0
    THEN \* Still inside a comment?
         LET start_pos == p IN
         Bind(scan_comment(s, st.comment_level, p, <<>>, st.include_comments), LAMBDA r :
         Bind([st EXCEPT !.comment_level = r.level], LAMBDA st1 :
           IF st.include_comments
           THEN Looked(Some(r.stream, st1, r.pos, Comment(r.comment), start_pos),
                       r.level > 0)
           ELSE token_loop(r.stream, st1, r.pos, FALSE)))
    ELSE token_loop(s, st, p, FALSE)

\* A faulty get_next_token that does not save the last token's state; the
\* lexing of '-' after an expression (C3) tells it from get_next_token.
get_next_token_unsaved(s, st, p) ==
    get_next_token_inner(s, st, p)

\* get_next_token: the inner call, then "Save the last token's state".
\* A faulty get_next_token that saves is_next_unary() itself, not its
\* negation; C34 tells it from get_next_token.
get_next_token_inverted(s, st, p) ==
    Bind(get_next_token_inner(s, st, p), LAMBDA r :
      IF r.status = "Some"
      THEN [r EXCEPT !.state.non_unary = is_next_unary(r.tok)]
      ELSE r)

\* A faulty get_next_token that takes the closing quote of an empty char
\* literal together with the opening one; C39 tells it from
\* get_next_token.
get_next_token_eating_quote(s, st, p) ==
    Bind(get_next_token_inner(s, st, p), LAMBDA r :
      IF r.status = "Some"
      THEN IF r.tok = LexError("MalformedChar", <<>>) /\ r.stream # <<>>
           THEN [r EXCEPT !.state.non_unary = ~is_next_unary(r.tok),
                          !.stream = Tail(r.stream), !.pos = advance(r.pos)]
           ELSE [r EXCEPT !.state.non_unary = ~is_next_unary(r.tok)]
      ELSE r)

get_next_token(s, st, p) ==
    Bind(get_next_token_inner(s, st, p), LAMBDA r :
      IF r.status = "Some"
      THEN [r EXCEPT !.state.non_unary = ~is_next_unary(r.tok)]
      ELSE r)

-----------------------------------------------------------------------------
(* The lexer as a state machine: one get_next_token call per step           *)

\* Longest input text drawn from an alphabet.
MaxLen == 4

\* Calls that signal end-of-stream before the model stops calling (each
\* one advances the position, up to the 65535th column).
MaxEos == 2

\* A string size limit small enough for literals of the model to exceed.
MaxStr == 2

\* All texts over the alphabet of at most n characters.
Texts(alphabet, n) == UNION { [1..k -> alphabet] : k \in 0..n }

\* TokenizeState
TokenizeState(max_string_size, non_unary, comment_level, end_with_none, include_comments) ==
    [ max_string_size  |-> max_string_size,
      non_unary        |-> non_unary,
      comment_level    |-> comment_level,
      end_with_none    |-> end_with_none,
      include_comments |-> include_comments ]

\* No call yet.
NoCall ==
    [ status |-> "NoCall", tok |-> NoToken, tpos |-> Position_none,
      input |-> <<>>, state |-> TokenizeState(0, FALSE, 0, FALSE, FALSE),
      pos |-> Position_none ]

\* The values the other components hold before they are used.
Dynamic(type, v) == [type |-> type, v |-> v]
Unit == Dynamic("()", 0)
NoCallable == [abi |-> "None", fn |-> "", pars |-> <<>>]
EmptyTable == [k \in {} |-> NoCallable]
NoQuery == [asked |-> FALSE, name |-> "", params |-> <<>>, func |-> NoCallable]
NoFnPtr == [made |-> FALSE, op |-> "", var |-> "", captured |-> <<>>]
NoClosureCall == [n |-> 0, op |-> "", var |-> "", arg |-> 0, before |-> Unit, result |-> Unit]
NoAst == [statements |-> 0, functions |-> {}]
NoOutcome == [kind |-> "none", n |-> 0]

TableIdle == token = NoToken /\ key = <<>> /\ found = NoToken
ModuleIdle == functions = EmptyTable /\ log = <<>> /\ got = NoQuery
ClosureIdle == scope = <<>> /\ cells = <<>> /\ fnptr = NoFnPtr /\ called = NoClosureCall
PointerIdle == ast = NoAst /\ ptrs = <<>> /\ outcome = NoOutcome

\* Option<HashSet<String>> and Option<HashMap<String, u8>>, by their keys.
None_keys == [is_some |-> FALSE, keys |-> {}]
Some_keys(ks) == [is_some |-> TRUE, keys |-> ks]

\* An engine as Engine::new() leaves it: nothing disabled, nothing custom.
NoEngine == [disabled_symbols |-> None_keys, custom_keywords |-> None_keys]
NoItem == [status |-> "NoCall", tok |-> NoToken, tpos |-> Position_none]
NoMove == [op |-> "none", n |-> 0, from |-> Position_none, panicked |-> FALSE]
NoModule == [functions |-> EmptyTable, variables |-> EmptyTable]
NoCombination == [n |-> 0, parts |-> <<>>]
NoResolution ==
    [kind |-> "none", n |-> 0, ok |-> TRUE, path |-> "", alias |-> "", name |-> "",
     error |-> "", found |-> NoCallable, before |-> EmptyTable]

IterIdle == engine = NoEngine /\ item = NoItem
PositionIdle == cursor = Position_none /\ moved = NoMove
PackageIdle == package = NoModule /\ combined = NoCombination
ResolverIdle ==
    /\ resolver = EmptyTable /\ host_resolver = EmptyTable
    /\ imports = EmptyTable /\ resolved = NoResolution
NoCalc == [fn |-> "none"]
LockCells == { 1, 2 }
NoFrame == [pc |-> "idle", n |-> 0, cell |-> 0, fn |-> "", r |-> ""]
NoAccess == [cell |-> 0, ok |-> TRUE, during |-> FALSE, after |-> ""]
LockIdle == held = [c \in LockCells |-> FALSE] /\ frame = NoFrame /\ accessed = NoAccess
NoTwin == [streams |-> <<>>, index |-> 0]
TwinIdle == twin = NoTwin
LateIdle == calc = NoCalc /\ LockIdle /\ TwinIdle
ExtraIdle == IterIdle /\ PositionIdle /\ PackageIdle /\ ResolverIdle /\ LateIdle

\* A lex session over the text `input`: the position and the state fields
\* that lex() sets, with the flags the caller of get_next_token chooses.
InitLexer(input, max_string_size, end_with_none, include_comments) ==
    /\ TableIdle /\ ModuleIdle /\ ClosureIdle /\ PointerIdle /\ ExtraIdle
    /\ stream = input
    /\ state = TokenizeState(max_string_size, FALSE, 0, end_with_none, include_comments)
    /\ pos = Position_new(1, 0)
    /\ last = NoCall
    /\ prev = NoCall
    /\ eos = 0
    /\ panicked = FALSE

\* A call signalled end-of-stream: None or Some(Token::EOF).
IsEos(call) == call.status = "None" \/ (call.status = "Some" /\ call.tok = EOF)

\* One call of get_next_token(&mut stream, &mut state, &mut pos).
GetNextToken ==
    /\ last.status # "NoSession"
    /\ ~panicked
    /\ eos < MaxEos
    /\ \E r \in { get_next_token(stream, state, pos) } :
       LET call == [ status |-> r.status, tok |-> r.tok, tpos |-> r.tpos,
                     input |-> stream, state |-> state, pos |-> pos ]
       IN /\ stream' = r.stream
          /\ state' = r.state
          /\ pos' = r.pos
          /\ last' = call
          /\ prev' = last
          /\ eos' = IF IsEos(call) THEN eos + 1 ELSE eos
          /\ panicked' = (r.status = "Panic")
    /\ UNCHANGED <<tableVars, moduleVars, closureVars, pointerVars, extraVars>>

vars == <<lexVars, tableVars, moduleVars, closureVars, pointerVars, extraVars>>

\* The general lexer specification: every text over a mixed alphabet.
LexAlphabet ==
    { CH.nul, CH.nl, CH.space, CH.minus, CH.one, CH.slash, CH.star, CH.a, CH.dquote }

Init ==
    \E input \in Texts(LexAlphabet, MaxLen), ewn \in BOOLEAN, inc \in BOOLEAN :
        InitLexer(input, 0, ewn, inc)

Next == GetNextToken

Spec == Init /\ [][Next]_vars

\* The lexer never holds Position::none(), so the assertions of advance,
\* new_line and rewind hold.
PosNeverNone == ~is_none(pos) /\ pos.line >= 1

-----------------------------------------------------------------------------
(* What the properties below say about a call, read off the input text     *)

\* A call was made.
Called(call) == call.status \in {"Some", "None", "Panic"}

\* The text of a call's input after the blanks that separate tokens.
RECURSIVE SkipBlank(_)
SkipBlank(s) ==
    IF s # <<>> /\ is_whitespace(Head(s)) THEN SkipBlank(Tail(s)) ELSE s

\* The longest prefix of letters, digits, '_' and '.': the text of a
\* numeric literal together with anything stuck to it.
RECURSIVE NumberRun(_)
NumberRun(s) ==
    IF s # <<>> /\ (is_ascii_alphanumeric(Head(s)) \/ Head(s) \in {CH.underscore, CH.period})
    THEN <<Head(s)>> \o NumberRun(Tail(s))
    ELSE <<>>

\* The digit value of a character: '0'..'9', 'a'..'f', 'A'..'F'.
DigitValue(c) ==
    IF c >= 48 /\ c <= 57 THEN c - 48
    ELSE IF c >= 97 /\ c <= 102 THEN c - 87
    ELSE IF c >= 65 /\ c <= 70 THEN c - 55
    ELSE 99

\* The number written by a text of digits in the radix, read from its end.
RECURSIVE Numeral(_, _)
Numeral(s, radix) ==
    IF s = <<>> THEN 0
    ELSE Numeral(SubSeq(s, 1, Len(s) - 1), radix) * radix + DigitValue(s[Len(s)])

\* More digits than this are not read as a number here: every numeral up
\* to this length fits INT in every radix of the lexer.
MaxDigits == 7

\* A decimal integer literal: a digit, then digits and '_' separators.
IsDecimalLiteral(run) ==
    /\ run # <<>>
    /\ IsDigit(run[1])
    /\ \A i \in 1..Len(run) : IsDigit(run[i]) \/ run[i] = CH.underscore
    /\ Len(run) <= MaxDigits

\* The radix a prefixed literal is written in: 0x, 0o, 0b in either case.
PrefixRadix(run) ==
    IF Len(run) < 2 \/ run[1] # 48 THEN 0
    ELSE IF run[2] \in {120, 88} THEN 16
    ELSE IF run[2] \in {111, 79} THEN 8
    ELSE IF run[2] \in {98, 66} THEN 2
    ELSE 0

\* A radix-prefixed literal: the prefix, then one or more digits of the radix.
IsRadixLiteral(run) ==
    /\ PrefixRadix(run) # 0
    /\ Len(run) >= 3
    /\ \A i \in 3..Len(run) : DigitValue(run[i]) < PrefixRadix(run)
    /\ Len(run) <= MaxDigits + 2

\* The value of a literal.
LiteralValue(run) ==
    IF IsRadixLiteral(run) THEN Numeral(Skip(run, 2), PrefixRadix(run))
    ELSE Numeral(SelectSeq(run, LAMBDA c : c # CH.underscore), 10)

\* The call met a '-' immediately followed by a decimal digit.
MinusDigit(call) ==
    LET t == SkipBlank(call.input) IN
    /\ Called(call)
    /\ call.state.comment_level = 0
    /\ Len(t) >= 2 /\ t[1] = CH.minus /\ IsDigit(t[2])

\* The text after that '-'.
AfterMinus(call) == Tail(SkipBlank(call.input))

\* The call before `last` leaves it in unary-allowed position: there was
\* none, or it gave a token for which is_next_unary is true.
UnaryPosition ==
    \/ prev.status = "NoCall"
    \/ prev.status = "Some" /\ is_next_unary(prev.tok)

-----------------------------------------------------------------------------
(* Lex sessions over the alphabets the properties are about *)

\* '-' and digits between tokens that end or do not end an expression.
UnaryAlphabet == { CH.minus, CH.five, CH.three, CH.space, CH.lparen, CH.rparen }

UnaryExamples ==
    { <<51, 32, 45, 32, 53>>,        \* "3 - 5"
      <<45, 53, 45, 53, 32>>,        \* "-5-5 "
      <<40, 45, 53, 41, 45, 53>> }   \* "(-5)-5"

InitUnary ==
    \E input \in Texts(UnaryAlphabet, MaxLen) \cup UnaryExamples :
        InitLexer(input, 0, FALSE, FALSE)

UnarySpec == InitUnary /\ [][Next]_vars

\* Digits of every radix, the radix prefixes and the separator.
NumberAlphabet ==
    { CH.zero, CH.one, CH.seven, CH.F, CH.x, CH.o, CH.b, CH.underscore }

NumberExamples ==
    { <<49, 95, 48, 48, 48>>,            \* "1_000"
      <<48, 120, 70, 70>>,               \* "0xFF"
      <<48, 111, 49, 55>>,               \* "0o17"
      <<48, 98, 49, 48, 49>>,            \* "0b101"
      <<32, 48, 88, 102, 57, 59>>,       \* " 0Xf9;"
      <<48, 66, 49, 49, 48, 32, 49>>,    \* "0B110 1"
      <<57, 95, 57, 95, 57, 41>> }       \* "9_9_9)"

InitNumber ==
    \E input \in Texts(NumberAlphabet, MaxLen) \cup NumberExamples :
        InitLexer(input, 0, FALSE, FALSE)

NumberSpec == InitNumber /\ [][Next]_vars

\* A '-' before literals of every radix.
NegatedAlphabet == { CH.minus, CH.zero, CH.one, CH.F, CH.x, CH.b, CH.lparen }

NegatedExamples ==
    { <<45, 48, 120, 49, 70>>,           \* "-0x1F"
      <<45, 48, 111, 49, 55>>,           \* "-0o17"
      <<45, 48, 98, 49, 48, 49>>,        \* "-0b101"
      <<40, 45, 49, 48, 41>>,            \* "(-10)"
      <<49, 45, 48, 120, 49>> }          \* "1-0x1"

InitNegated ==
    \E input \in Texts(NegatedAlphabet, MaxLen) \cup NegatedExamples :
        InitLexer(input, 0, FALSE, FALSE)

NegatedSpec == InitNegated /\ [][Next]_vars

\* Decimal literals with separators and decimal points, after a '-' or not.
FloatAlphabet == { CH.minus, CH.one, CH.nine, CH.period, CH.underscore, CH.space }

FloatExamples ==
    { <<49, 46, 50, 46, 51>>,                    \* "1.2.3"
      <<49, 95, 46, 50, 95, 46, 51>>,            \* "1_.2_.3"
      <<49, 95, 48, 46, 53, 95, 53>>,            \* "1_0.5_5"
      <<57,50,50,51,51,55,50,48,51,54,56,53,52,55,55,53,56,48,56>>,
                                                 \* "9223372036854775808"
      <<45,57,50,50,51,51,55,50,48,51,54,56,53,52,55,55,53,56,48,57>>,
                                                 \* "-9223372036854775809"
      <<49,48,48,48,48,48,48,48,48,48,48,48,48,48,48,48,48,48,48,48>> }
                                                 \* "10000000000000000000"

InitFloat ==
    \E input \in Texts(FloatAlphabet, MaxLen) \cup FloatExamples :
        InitLexer(input, 0, FALSE, FALSE)

FloatSpec == InitFloat /\ [][Next]_vars

\* Letters, digits and underscores, and what ends a run of them.
IdentAlphabet == { CH.underscore, CH.a, CH.Z, CH.one, CH.space, CH.minus }

IdentExamples ==
    { <<108, 101, 116>>,                 \* "let"
      <<95, 108, 101, 116, 32, 95>>,     \* "_let _"
      <<110, 101, 119, 59>>,             \* "new;"
      <<112, 114, 105, 110, 116, 95>>,   \* "print_"
      <<95, 95, 49, 97, 43, 102, 110>>,  \* "__1a+fn"
      <<116, 104, 105, 115, 46, 120, 49>> } \* "this.x1"

InitIdent ==
    \E input \in Texts(IdentAlphabet, MaxLen) \cup IdentExamples :
        InitLexer(input, 0, FALSE, FALSE)

IdentSpec == InitIdent /\ [][Next]_vars

\* Block comments: their markers, a character of comment text and a token.
CommentAlphabet == { CH.slash, CH.star, CH.a, CH.one }

\* Longest text of comment markers.
MaxCommentLen == 6

CommentExamples ==
    { \* "/* a /* b */ c */"
      <<47, 42, 32, 97, 32, 47, 42, 32, 98, 32, 42, 47, 32, 99, 32, 42, 47>>,
      \* "/* a /* b */ c */ 1"
      <<47, 42, 32, 97, 32, 47, 42, 32, 98, 32, 42, 47, 32, 99, 32, 42, 47, 32, 49>> }

InitComment ==
    \E input \in Texts(CommentAlphabet, MaxCommentLen) \cup CommentExamples,
       ewn \in BOOLEAN, inc \in BOOLEAN :
        InitLexer(input, 0, ewn, inc)

CommentSpec == InitComment /\ [][Next]_vars

\* Longest text of the sessions whose whole behaviours are examined.
MaxLiveLen == 2

\* No lex session yet.
NoSession == [NoCall EXCEPT !.status = "NoSession"]

LexerIdle ==
    /\ stream = <<>>
    /\ state = TokenizeState(0, FALSE, 0, FALSE, FALSE)
    /\ pos = Position_new(1, 0)
    /\ last = NoSession
    /\ prev = NoCall
    /\ eos = 0
    /\ panicked = FALSE

InitIdle == LexerIdle /\ TableIdle /\ ModuleIdle /\ ClosureIdle /\ PointerIdle /\ ExtraIdle

\* A lex session over a comment text is set up: the TokenIterator of lex(),
\* or the stream, state and position of a caller of get_next_token.
LexComment ==
    /\ last.status = "NoSession"
    /\ \E input \in Texts(CommentAlphabet, MaxLiveLen),
          ewn \in BOOLEAN, inc \in BOOLEAN :
          /\ stream' = input
          /\ state' = TokenizeState(0, FALSE, 0, ewn, inc)
    /\ pos' = Position_new(1, 0)
    /\ last' = NoCall
    /\ UNCHANGED <<prev, eos, panicked>>
    /\ UNCHANGED <<tableVars, moduleVars, closureVars, pointerVars, extraVars>>

NextLiveComment == LexComment \/ GetNextToken

\* Comment sessions with a consumer that keeps calling: weak fairness of
\* the calls.
LiveCommentSpec ==
    InitIdle /\ [][NextLiveComment]_vars /\ WF_vars(LexComment) /\ WF_vars(GetNextToken)

\* String literals: every recognized escape, and plain characters.
StringPieces ==
    { <<92, 92>>,                                   \* \\
      <<92, 116>>,                                  \* \t
      <<92, 110>>,                                  \* \n
      <<92, 114>>,                                  \* \r
      <<92, 34>>,                                   \* \"
      <<92, 120, 52, 49>>,                          \* \x41
      <<92, 120, 55, 102>>,                         \* \x7f
      <<92, 117, 48, 48, 69, 57>>,                  \* é
      <<92, 117, 50, 48, 97, 67>>,                  \* €
      <<92, 85, 48, 48, 48, 49, 70, 54, 48, 48>>,   \* \U0001F600
      <<97>>, <<116>>, <<120>>, <<39>>, <<32>> }    \* a t x ' and a space

\* Most pieces in a literal.
MaxPieces == 2

RECURSIVE PieceTexts(_)
PieceTexts(k) ==
    IF k = 0 THEN { <<>> }
    ELSE PieceTexts(k - 1) \cup { p \o q : p \in StringPieces, q \in PieceTexts(k - 1) }

StringAlphabet == { CH.dquote, CH.backslash, CH.x, CH.four, CH.n, CH.a }

InitString ==
    \E input \in Texts(StringAlphabet, MaxLen)
                 \cup { <<CH.dquote>> \o body \o <<CH.dquote>> : body \in PieceTexts(MaxPieces) },
       max \in {0, MaxStr} :
        InitLexer(input, max, FALSE, FALSE)

StringSpec == InitString /\ [][Next]_vars

\* String and char literals with what ends them early: both quotes, the
\* backslash, a raw newline, an escape letter and a plain letter.
LiteralAlphabet == { CH.dquote, CH.squote, CH.backslash, CH.nl, CH.n, CH.a }

\* Contents of one, two and three bytes of UTF-8, and an escape.
LiteralPieces ==
    { <<97>>,                                       \* a
      <<92, 110>>,                                  \* \n
      <<92, 117, 48, 48, 69, 57>>,                  \* é
      <<92, 117, 50, 48, 97, 67>> }                 \* €

\* Most pieces in a literal of the literal sessions.
MaxLiteralPieces == 3

RECURSIVE LiteralTexts(_)
LiteralTexts(k) ==
    IF k = 0 THEN { <<>> }
    ELSE LiteralTexts(k - 1) \cup { p \o q : p \in LiteralPieces, q \in LiteralTexts(k - 1) }

LiteralExamples ==
    { <<34, 92, 120, 52>>,                  \* "\x4   cut short in a hex escape
      <<34, 97, 92, 117, 48, 48>>,          \* "a\u00
      <<39, 92, 120, 52>>,                  \* '\x4
      <<32, 34, 97, 97, 10, 34>>,           \* a blank, then "aa, a newline, "
      <<39, 97, 97, 10, 39>>,               \* 'aa, a newline, '
      <<34, 97, 92, 97, 34>>,               \* "a\a"
      <<39, 92, 39, 39>>,                   \* '\''
      <<39, 39, 97, 39>> }                  \* ''a'

InitLiteral ==
    \E input \in Texts(LiteralAlphabet, MaxLen) \cup LiteralExamples
                 \cup { <<q>> \o body \o <<q>> :
                           q \in { CH.dquote, CH.squote },
                           body \in LiteralTexts(MaxLiteralPieces) },
       max \in {0, MaxStr} :
        InitLexer(input, max, FALSE, FALSE)

LiteralSpec == InitLiteral /\ [][Next]_vars

-----------------------------------------------------------------------------
(* Native function registration: fn_register.rs, and the function table of *)
(* the Module it registers into.  A type is named by its Rust name; a      *)
(* Dynamic value holds its type and an integer standing for its content.   *)

\* A faulty map_type_id that remaps nothing; the lookup of a function
\* registered with a `&str` parameter (C9) tells it from map_type_id.
map_type_id_unmapped(T) == T

\* A faulty map_type_id that remaps `&str` only; the key of a function
\* with a String parameter (C29) tells it from map_type_id.
map_type_id_str_only(T) == IF T = "&str" THEN "ImmutableString" ELSE T

\* map_type_id::<T>(): `&str` and `String` are remapped to ImmutableString.
map_type_id(T) ==
    IF T = "&str" THEN "ImmutableString"
    ELSE IF T = "String" THEN "ImmutableString"
    ELSE T

\* by_value::<T>(data): the value, when the Dynamic holds what T needs;
\* the unwrap or cast panics otherwise.
by_value(data, T) ==
    IF T = "&str" THEN [ok |-> data.type = "ImmutableString", v |-> data.v]
    ELSE IF T = "String" THEN [ok |-> data.type = "ImmutableString", v |-> data.v]
    ELSE [ok |-> data.type = T, v |-> data.v]

\* by_ref::<T>(data): the write lock on the value of type T.
by_ref(data, T) == [ok |-> data.type = T, v |-> data.v]

\* The native functions registered: their Rust parameter types, whether
\* the first parameter is `&mut`, and what they compute from the argument
\* contents: the value returned and the content left in the first argument.
Natives ==
    { [fn |-> "plus_one",      pars |-> <<"INT">>,            first_mut |-> FALSE],
      [fn |-> "add_int",       pars |-> <<"INT", "INT">>,     first_mut |-> FALSE],
      [fn |-> "add_float",     pars |-> <<"FLOAT", "FLOAT">>, first_mut |-> FALSE],
      [fn |-> "mul",           pars |-> <<"INT", "INT">>,     first_mut |-> TRUE],
      [fn |-> "write_out_str", pars |-> <<"&str">>,           first_mut |-> FALSE] }

\* The fallible native functions, registered with register_result_fn
\* (fn_register.rs:161-171 has div), and the function that a plugin
\* registers (fn_register.rs:78).
ResultNatives ==
    { [fn |-> "div", pars |-> <<"INT", "INT">>, first_mut |-> FALSE] }

get_mystic_number == [fn |-> "get_mystic_number", pars |-> <<>>, first_mut |-> FALSE]

\* x / y of Rust's integers rounds towards zero.
truncated(x, y) ==
    LET ax == IF x < 0 THEN -x ELSE x
        ay == IF y < 0 THEN -y ELSE y
    IN IF (x < 0) = (y < 0) THEN ax \div ay ELSE -(ax \div ay)

\* The native function returned an Err: "division by zero!".
NativeFails(fn, a) == fn = "div" /\ a[2] = 0

NativeReturn(fn, a) ==
    CASE fn = "plus_one"      -> Dynamic("INT", a[1] + 1)
      [] fn = "div"           -> Dynamic("INT", truncated(a[1], a[2]))
      [] fn = "get_mystic_number" -> Dynamic("FLOAT", 42)
      [] fn = "add_int"       -> Dynamic("INT", a[1] + a[2])
      [] fn = "add_float"     -> Dynamic("FLOAT", a[1] + a[2])
      [] fn = "mul"           -> Unit
      [] fn = "write_out_str" -> Dynamic("bool", 1)
      [] OTHER                -> Unit

\* A faulty native call whose write through the first parameter is lost,
\* as on a copy of the argument; C14 tells it from NativeFirst.
NativeFirst_on_copy(fn, a) == a[1]

NativeFirst(fn, a) == IF fn = "mul" THEN a[1] * a[2] ELSE a[1]

\* CallableFunction::from_pure / from_method of the closure that make_func
\* builds around the native function.
CallableFunction(abi, native) == [abi |-> abi, fn |-> native.fn, pars |-> native.pars]

\* What a conversion leaves in the place of the argument: by_value takes
\* the value with mem::take and leaves () there, before the cast, unless T
\* is `&str` or `String`, which read the string in place; by_ref leaves the
\* argument where it is.
taken(data, T, by_reference) ==
    IF by_reference \/ T \in { "&str", "String" } THEN data ELSE Unit

\* The closure built by make_func, called on the arguments: each argument
\* is converted in turn (by_ref for the first parameter of a method,
\* by_value for the others), the function is called and its result mapped
\* by map_dynamic or map_result: an Err of a fallible function is the
\* result of the call.  A conversion that panics (no argument left, or a value of
\* another type) ends the call with the arguments converted so far, and
\* the one it failed on, as the conversions left them.
make_func(func, args) ==
    LET n == Len(func.pars)
        by_reference(i) == i = 1 /\ func.abi = "Method"
        conv(i) == IF by_reference(i)
                   THEN by_ref(args[i], func.pars[i])
                   ELSE by_value(args[i], func.pars[i])
        failing == { i \in 1..n : i > Len(args) \/ ~conv(i).ok }
        stop == IF failing = {} THEN n
                ELSE CHOOSE i \in failing : \A k \in failing : i <= k
        left == [i \in 1..Len(args) |->
                   IF i <= stop THEN taken(args[i], func.pars[i], by_reference(i))
                   ELSE args[i]]
        a == [i \in 1..n |-> conv(i).v]
    IN IF failing # {}
       THEN [status |-> "Panic", ret |-> Unit, args |-> left]
       ELSE [status |-> IF NativeFails(func.fn, a) THEN "ErrorRuntime" ELSE "Ok",
             ret |-> IF NativeFails(func.fn, a) THEN Unit ELSE NativeReturn(func.fn, a),
             args |-> [i \in 1..Len(args) |->
                         IF by_reference(i)
                         THEN Dynamic(args[1].type, NativeFirst(func.fn, a))
                         ELSE left[i]]]

\* Module::set_fn(name, access, arg_types, func): the entry under the key
\* (name, arg_types) is inserted, replacing an entry of that key.
set_fn(fs, name, access, arg_types, func) ==
    [k \in DOMAIN fs \cup { <<name, arg_types>> } |->
        IF k = <<name, arg_types>>
        THEN [name |-> name, access |-> access, params |-> arg_types, func |-> func]
        ELSE fs[k]]

\* Module::get_fn(name, arg_types): the callable of the entry with exactly
\* that key; None is held as NoCallable.
get_fn(fs, name, arg_types) ==
    IF <<name, arg_types>> \in DOMAIN fs THEN fs[<<name, arg_types>>].func ELSE NoCallable

\* A faulty register_fn that registers under the name and the number of
\* parameters only; the coexistence of overloads (C8) tells it from
\* register_fn.
register_fn_untyped(fs, name, native) ==
    set_fn(fs, name, "Public",
           [i \in 1..Len(native.pars) |-> "INT"],
           CallableFunction(IF native.first_mut THEN "Method" ELSE "Pure", native))

\* Engine::register_fn(name, f) for a native function f.
register_fn(fs, name, native) ==
    set_fn(fs, name, "Public",
           [i \in 1..Len(native.pars) |-> map_type_id(native.pars[i])],
           CallableFunction(IF native.first_mut THEN "Method" ELSE "Pure", native))

\* Engine::register_result_fn(name, f) for a fallible native function f:
\* the same key and ABI; the closure maps the result with map_result.
register_result_fn(fs, name, native) ==
    set_fn(fs, name, "Public",
           [i \in 1..Len(native.pars) |-> map_type_id(native.pars[i])],
           CallableFunction(IF native.first_mut THEN "Method" ELSE "Pure", native))

\* A call name(args) of a native function: it is resolved by the name and
\* the types of the arguments, and called.
call_native(fs, name, args) ==
    LET func == get_fn(fs, name, [i \in 1..Len(args) |-> args[i].type])
    IN IF func = NoCallable
       THEN [status |-> "ErrorFunctionNotFound", ret |-> Unit, args |-> args]
       ELSE make_func(func, args)

\* Most registrations in a run.
MaxRegs == 3

FnNames == { "add", "mul" }

\* The argument type lists asked for.
Signatures ==
    { <<"INT">>, <<"INT", "INT">>, <<"FLOAT", "FLOAT">>, <<"&str">>, <<"ImmutableString">> }

\* The one type identity of the string types.
Canonical(T) == IF T \in { "&str", "String", "ImmutableString" } THEN "ImmutableString" ELSE T

Registration(name, params, native) ==
    [ name |-> name, params |-> params,
      func |-> [abi |-> IF native.first_mut THEN "Method" ELSE "Pure",
                fn |-> native.fn, pars |-> native.pars] ]

\* engine.register_fn(name, f)
RegisterFn ==
    /\ Len(log) < MaxRegs
    /\ \E name \in FnNames, native \in Natives :
        /\ functions' = register_fn(functions, name, native)
        /\ log' = Append(log, Registration(name,
                     [i \in 1..Len(native.pars) |-> Canonical(native.pars[i])], native))
    /\ got' = NoQuery
    /\ UNCHANGED <<lexVars, tableVars, closureVars, pointerVars, extraVars>>

\* engine.register_result_fn("div", div)
RegisterResultFn ==
    /\ Len(log) < MaxRegs
    /\ \E name \in { "div" }, native \in ResultNatives :
        /\ functions' = register_result_fn(functions, name, native)
        /\ log' = Append(log, Registration(name,
                     [i \in 1..Len(native.pars) |-> Canonical(native.pars[i])], native))
    /\ got' = NoQuery
    /\ UNCHANGED <<lexVars, tableVars, closureVars, pointerVars, extraVars>>

\* module.set_fn(name, access, arg_types, func) with the type ids as the
\* caller names them.
SetFn ==
    /\ Len(log) < MaxRegs
    /\ \E name \in FnNames, native \in Natives :
        /\ functions' = set_fn(functions, name, "Public", native.pars,
                               CallableFunction(IF native.first_mut THEN "Method" ELSE "Pure",
                                                native))
        /\ log' = Append(log, Registration(name, native.pars, native))
    /\ got' = NoQuery
    /\ UNCHANGED <<lexVars, tableVars, closureVars, pointerVars, extraVars>>

\* module.get_fn(name, arg_types)
GetFn ==
    /\ \E name \in FnNames, sig \in Signatures :
        got' = [asked |-> TRUE, name |-> name, params |-> sig,
                func |-> get_fn(functions, name, sig)]
    /\ UNCHANGED <<functions, log, lexVars, tableVars, closureVars, pointerVars, extraVars>>

\* Native functions of string parameters, declared with each of the
\* string types (codegen/tests/test_modules.rs:92-101 has the first).
StrNatives ==
    { [fn |-> "write_out_str",   pars |-> <<"&str">>,                    first_mut |-> FALSE],
      [fn |-> "write_out_string", pars |-> <<"String">>,                 first_mut |-> FALSE],
      [fn |-> "write_out_imm",   pars |-> <<"ImmutableString">>,         first_mut |-> FALSE],
      [fn |-> "join_str_string", pars |-> <<"&str", "String">>,          first_mut |-> FALSE],
      [fn |-> "join_imm_str",    pars |-> <<"ImmutableString", "&str">>, first_mut |-> FALSE],
      [fn |-> "plus_one",        pars |-> <<"INT">>,                     first_mut |-> FALSE] }

\* engine.register_fn(name, f) for a function of string parameters; the
\* log keeps the parameter types as declared.
RegisterStrFn ==
    /\ Len(log) < MaxRegs
    /\ \E name \in { "write", "join" }, native \in StrNatives :
        /\ functions' = register_fn(functions, name, native)
        /\ log' = Append(log, Registration(name, native.pars, native))
    /\ got' = NoQuery
    /\ UNCHANGED <<lexVars, tableVars, closureVars, pointerVars, extraVars>>

\* name("...") or name("...", "..."): a call with script strings, which are
\* ImmutableString values.
CallWithStrings ==
    /\ \E name \in { "write", "join" }, n \in 1..2 :
        \E r \in { call_native(functions, name, [i \in 1..n |-> Dynamic("ImmutableString", i)]) } :
          got' = [asked |-> TRUE, name |-> name,
                  params |-> [i \in 1..n |-> "ImmutableString"],
                  func |-> get_fn(functions, name, [i \in 1..n |-> "ImmutableString"]),
                  status |-> r.status]
    /\ UNCHANGED <<functions, log, lexVars, tableVars, closureVars, pointerVars, extraVars>>

NextStrFn == RegisterStrFn \/ CallWithStrings

StrFnSpec == InitIdle /\ [][NextStrFn]_vars

InitModule == LexerIdle /\ TableIdle /\ ModuleIdle /\ ClosureIdle /\ PointerIdle /\ ExtraIdle

NextModule == RegisterFn \/ RegisterResultFn \/ SetFn \/ GetFn

ModuleSpec == InitModule /\ [][NextModule]_vars

-----------------------------------------------------------------------------
(* Closures: a script of `let` statements, one closure literal bound to    *)
(* `foo` and calls of it, as in tests/closures.rs.  The closure body is    *)
(* `v += x`, `v = x` or `v + x` for a variable v of the enclosing scope    *)
(* and the parameter x.  A Scope is a list of (name, value) entries; a     *)
(* shared value is a Dynamic of type "Shared" holding the index of its     *)
(* cell.                                                                   *)

\* The index of the variable in the scope; 0 when it is not there.
RECURSIVE find(_, _, _)
find(sc, n, name) ==
    IF n = 0 THEN 0
    ELSE IF sc[n].name = name THEN n
    ELSE find(sc, n - 1, name)

\* Dynamic::is_shared
is_shared(d) == d.type = "Shared"

\* The value of a variable, read through the cell when it is shared.
read(sc, cs, name) ==
    LET d == sc[find(sc, Len(sc), name)].value
    IN IF is_shared(d) THEN cs[d.v] ELSE d

\* The closure bodies that write to the captured variable.
Mutating == { "+=", "=" }

\* A faulty capture that copies the variable's value into the captured
\* list and shares nothing; C10 tells it from capture.
capture_by_copy(sc, cs, op, var) ==
    [ scope |-> sc, cells |-> cs,
      captured |-> << sc[find(sc, Len(sc), var)].value >> ]

\* Creation of the closure |x| { var op x }: the captured list is filled
\* from the enclosing scope, and the captured variable is made shared in
\* the enclosing scope itself.  A variable the body only reads is shared
\* as well: `a.call(foo, 1)` with foo = |x| { this += a + x } reports a
\* data race on a (tests/closures.rs:179-192), which only a shared a can.
capture(sc, cs, op, var) ==
    LET i == find(sc, Len(sc), var)
        d == sc[i].value
    IN IF ~is_shared(d)
       THEN [ scope |-> [sc EXCEPT ![i].value = Dynamic("Shared", Len(cs) + 1)],
              cells |-> Append(cs, d),
              captured |-> << Dynamic("Shared", Len(cs) + 1) >> ]
       ELSE [ scope |-> sc, cells |-> cs, captured |-> << d >> ]

\* A call of the closure: a fresh scope holding the captured values and
\* then the arguments, in which the body is evaluated.  A write to a
\* shared value goes to its cell.
call_closure(cs, fp, arg) ==
    LET local == << [name |-> fp.var, value |-> fp.captured[1]],
                    [name |-> "x", value |-> Dynamic("INT", arg)] >>
        old == read(local, cs, fp.var)
        new == IF fp.op = "+=" THEN Dynamic("INT", old.v + arg) ELSE Dynamic("INT", arg)
        d == local[1].value
    IN IF fp.op \in Mutating
       THEN [ cells |-> IF is_shared(d) THEN [cs EXCEPT ![d.v] = new] ELSE cs,
              result |-> Unit ]
       ELSE [ cells |-> cs, result |-> Dynamic("INT", old.v + arg) ]

\* Most variables declared and most calls of the closure in a run.
MaxScope == 2
MaxCalls == 2

VarNames == { "a", "b" }

\* let name = v;
LetVar ==
    /\ Len(scope) < MaxScope
    /\ \E name \in VarNames, v \in { 21, 41 } :
        /\ find(scope, Len(scope), name) = 0
        /\ scope' = Append(scope, [name |-> name, value |-> Dynamic("INT", v)])
    /\ UNCHANGED <<cells, fnptr, called, lexVars, tableVars, moduleVars, pointerVars, extraVars>>

\* let foo = |x| { var op x };
MakeClosure ==
    /\ ~fnptr.made
    /\ \E op \in { "+=", "=", "+" }, var \in VarNames :
        /\ find(scope, Len(scope), var) # 0
        /\ LET c == capture(scope, cells, op, var)
           IN /\ scope' = c.scope
              /\ cells' = c.cells
              /\ fnptr' = [made |-> TRUE, op |-> op, var |-> var, captured |-> c.captured]
    /\ UNCHANGED <<called, lexVars, tableVars, moduleVars, pointerVars, extraVars>>

\* foo.call(arg);
CallClosure ==
    /\ fnptr.made
    /\ called.n < MaxCalls
    /\ \E arg \in { 1, 2 } :
        LET r == call_closure(cells, fnptr, arg)
        IN /\ cells' = r.cells
           /\ called' = [n |-> called.n + 1, op |-> fnptr.op, var |-> fnptr.var,
                         arg |-> arg, before |-> read(scope, cells, fnptr.var),
                         result |-> r.result]
    /\ UNCHANGED <<scope, fnptr, lexVars, tableVars, moduleVars, pointerVars, extraVars>>

InitClosure == LexerIdle /\ TableIdle /\ ModuleIdle /\ ClosureIdle /\ PointerIdle /\ ExtraIdle

NextClosure == LetVar \/ MakeClosure \/ CallClosure

ClosureSpec == InitClosure /\ [][NextClosure]_vars

-----------------------------------------------------------------------------
(* Method-style calls of a closure: `recv.call(foo, arg)` binds `this` to  *)
(* the variable recv for the call.  A shared receiver is held under its    *)
(* write lock for the length of the call (a non-sync build: the borrow of  *)
(* the cell), and the arguments of the call, captured values first, are    *)
(* checked against the locks held before the body runs.                    *)

\* The Err side of a call's result: there is no value.
NoValue == Dynamic("NoValue", 0)

\* The cells locked by holding the value d as `this`.
locks_of(d) == IF is_shared(d) THEN { d.v } ELSE {}

\* Dynamic::is_locked, with the locks held at the time.
is_locked(d, locks) == is_shared(d) /\ d.v \in locks

\* A faulty check that looks at no argument; C11 tells it from
\* ensure_no_data_race.
ensure_no_data_race_unchecked(args, locks) == TRUE

\* No argument of the call is a shared value that is locked.
ensure_no_data_race(args, locks) ==
    \A i \in 1..Len(args) : ~is_locked(args[i], locks)

\* The value of a Dynamic, read through its cell when it is shared.
flatten(d, cs) == IF is_shared(d) THEN cs[d.v] ELSE d

\* recv.call(fp, arg): the body `this += var + x`, `var += x`, `var = x`
\* or `var + x` runs with `this` bound to the receiver's slot, unless an
\* argument is locked.
method_call(sc, cs, recv, fp, arg) ==
    LET i == find(sc, Len(sc), recv)
        target == sc[i].value
        args == fp.captured \o << Dynamic("INT", arg) >>
        c == flatten(args[1], cs)
        x == flatten(args[2], cs)
        this == flatten(target, cs)
        written == Dynamic("INT", this.v + c.v + x.v)
    IN IF ~ensure_no_data_race(args, locks_of(target))
       THEN [ scope |-> sc, cells |-> cs, error |-> "ErrorDataRace", result |-> NoValue ]
       ELSE IF fp.op = "this+="
       THEN [ scope |-> IF is_shared(target) THEN sc ELSE [sc EXCEPT ![i].value = written],
              cells |-> IF is_shared(target) THEN [cs EXCEPT ![target.v] = written] ELSE cs,
              error |-> "", result |-> Unit ]
       ELSE LET r == call_closure(cs, fp, arg)
            IN [ scope |-> sc, cells |-> r.cells, error |-> "", result |-> r.result ]

\* let foo = |x| { this += var + x };
MakeThisClosure ==
    /\ ~fnptr.made
    /\ \E var \in VarNames :
        /\ find(scope, Len(scope), var) # 0
        /\ \E c \in { capture(scope, cells, "this+=", var) } :
              /\ scope' = c.scope
              /\ cells' = c.cells
              /\ fnptr' = [made |-> TRUE, op |-> "this+=", var |-> var, captured |-> c.captured]
    /\ UNCHANGED <<called, outcome, ast, ptrs, lexVars, tableVars, moduleVars, extraVars>>

\* recv.call(foo, arg);
MethodCall ==
    /\ fnptr.made
    /\ outcome.kind = "none"
    /\ \E recv \in VarNames, arg \in { 1, 2 } :
        /\ find(scope, Len(scope), recv) # 0
        /\ \E r \in { method_call(scope, cells, recv, fnptr, arg) } :
              /\ scope' = r.scope
              /\ cells' = r.cells
              /\ outcome' = [ kind |-> "method", recv |-> recv, arg |-> arg,
                              before |-> read(scope, cells, recv),
                              captured |-> read(scope, cells, fnptr.var),
                              error |-> r.error, result |-> r.result ]
    /\ UNCHANGED <<fnptr, called, ast, ptrs, lexVars, tableVars, moduleVars, extraVars>>

\* foo.call(v); for a variable v of the scope, passed by value: no
\* receiver, so no lock is held when the arguments are checked.
CallWithVar ==
    /\ fnptr.made
    /\ fnptr.op # "this+="
    /\ outcome.kind = "none"
    /\ \E v \in VarNames :
        /\ find(scope, Len(scope), v) # 0
        /\ \E args \in { << scope[find(scope, Len(scope), v)].value >> } :
           /\ ensure_no_data_race(fnptr.captured \o args, {})
           /\ \E r \in { call_closure(cells, fnptr, flatten(args[1], cells).v) } :
                /\ cells' = r.cells
                /\ outcome' = [ kind |-> "call", var |-> v, error |-> "",
                                arg |-> flatten(args[1], cells),
                                before |-> read(scope, cells, fnptr.var),
                                result |-> r.result ]
    /\ UNCHANGED <<scope, fnptr, called, ast, ptrs, lexVars, tableVars, moduleVars, extraVars>>

InitReceiver == InitIdle

NextReceiver == LetVar \/ MakeClosure \/ MakeThisClosure \/ MethodCall \/ CallWithVar

ReceiverSpec == InitReceiver /\ [][NextReceiver]_vars

-----------------------------------------------------------------------------
(* Function pointers: an FnPtr is a function name and the list of curried  *)
(* (captured) values.  The script defines functions, makes pointers with   *)
(* Fn(name), curries them and calls them; a native function calls them     *)
(* with FnPtr::call_dynamic, with or without a `this` (tests/call_fn.rs,   *)
(* tests/closures.rs).                                                     *)

FnPtr(name, curried) == [name |-> name, curry |-> curried]

\* The functions the compiled script defines: name, number of parameters
\* and body.
ScriptFns ==
    { [name |-> "sub",  params |-> 2, body |-> "x - y"],
      [name |-> "foo",  params |-> 1, body |-> "this += x"],
      [name |-> "foo2", params |-> 2, body |-> "this += x + y"] }

\* The native function registered by the host: mul(x: &mut INT, y: INT).
NativeMul == CHOOSE n \in Natives : n.fn = "mul"

\* A faulty curry that keeps only the new values; C13 tells it from curry.
curry_replacing(fp, vals) == FnPtr(fp.name, vals)

\* fp.curry(v1, v2, ...): a new pointer, the values appended.
curry(fp, vals) == FnPtr(fp.name, fp.curry \o vals)

\* The script function of that name and number of parameters, if any.
get_script_fn(lib, name, n) == { f \in lib : f.name = name /\ f.params = n }

\* The body of a script function evaluated in a fresh scope where its
\* parameters, in order, hold the values of `bound`.
call_script_fn(f, this, bound) ==
    CASE f.body = "x - y" ->
            [ error |-> "", result |-> Dynamic("INT", bound[1].v - bound[2].v), this |-> this ]
      [] f.body = "this += x" ->
            IF this = NoValue
            THEN [ error |-> "ErrorUnboundThis", result |-> NoValue, this |-> this ]
            ELSE [ error |-> "", result |-> Unit,
                   this |-> Dynamic("INT", this.v + bound[1].v) ]
      [] f.body = "this += x + y" ->
            IF this = NoValue
            THEN [ error |-> "ErrorUnboundThis", result |-> NoValue, this |-> this ]
            ELSE [ error |-> "", result |-> Unit,
                   this |-> Dynamic("INT", this.v + bound[1].v + bound[2].v) ]

\* The call of the function `name` on the values `all`, with `this` bound
\* when it is not NoValue: a script function of that name and arity, or
\* else a native function, for which `this` is the first argument.
exec_fn_call(lib, fs, name, this, all) ==
    LET fns == get_script_fn(lib, name, Len(all))
        nargs == IF this = NoValue THEN all ELSE << this >> \o all
    IN IF fns # {}
       THEN call_script_fn(CHOOSE f \in fns : TRUE, this, all)
       ELSE Bind(call_native(fs, name, nargs), LAMBDA r :
               IF r.status # "Ok"
               THEN [ error |-> r.status, result |-> NoValue, this |-> this ]
               ELSE [ error |-> "", result |-> r.ret,
                      this |-> IF this = NoValue THEN this ELSE r.args[1] ])

\* A faulty binding that puts the call's arguments before the curried
\* values; C12 tells it from bind_args.
bind_args_call_first(fp, args) == args \o fp.curry

\* The values bound to the parameters: the curried values, then the
\* arguments of the call.
bind_args(fp, args) == fp.curry \o args

\* fp.call_dynamic(engine, lib, this, args), from native code.
call_dynamic(lib, fs, fp, this, args) ==
    Bind(bind_args(fp, args), LAMBDA all :
        [ bound |-> all ] @@ exec_fn_call(lib, fs, fp.name, this, all))

\* fp.call(args), from the script: a call of the function the pointer
\* names, the curried values put before the arguments.
script_call(lib, fs, fp, args) ==
    Bind(bind_args(fp, args), LAMBDA all :
        [ bound |-> all ] @@ exec_fn_call(lib, fs, fp.name, NoValue, all))

\* Most pointers held, most values in a curried list, most calls in a run.
MaxPtrs == 3
MaxCurry == 2
MaxPtrCalls == 1

\* The values curried and passed.
ArgValues == { Dynamic("INT", 1), Dynamic("INT", 2) }

ArgLists(lo, hi) == UNION { [1..n -> ArgValues] : n \in lo..hi }

\* engine.compile(script): the statements and the functions of the script.
Compile ==
    /\ ast = NoAst
    /\ ast' = [statements |-> 1, functions |-> ScriptFns]
    /\ UNCHANGED <<ptrs, outcome, lexVars, tableVars, moduleVars, closureVars, extraVars>>

\* ast.retain_functions(|_, _, _| true): the statements are discarded.
RetainFunctions ==
    /\ ast.statements > 0
    /\ ast' = [ast EXCEPT !.statements = 0]
    /\ UNCHANGED <<ptrs, outcome, lexVars, tableVars, moduleVars, closureVars, extraVars>>

\* let p = Fn(name); the first pointer of the script, nothing curried.
MakeFnPtr ==
    /\ ast # NoAst
    /\ ptrs = <<>>
    /\ \E name \in { "sub", "foo", "foo2", "mul" } :
          ptrs' = Append(ptrs, FnPtr(name, <<>>))
    /\ UNCHANGED <<ast, outcome, lexVars, tableVars, moduleVars, closureVars, extraVars>>

\* let q = p.curry(v1, ...); p is the pointer made last, so that the
\* pointers held are a chain p, p.curry(..), p.curry(..).curry(..).
Curry ==
    /\ Len(ptrs) < MaxPtrs
    /\ \E i \in 1..Len(ptrs), vals \in ArgLists(1, 2) :
        /\ i = Len(ptrs)
        /\ Len(ptrs[i].curry) + Len(vals) <= MaxCurry
        /\ ptrs' = Append(ptrs, curry(ptrs[i], vals))
        /\ outcome' = [ kind |-> "curry", n |-> outcome.n, of |-> i, vals |-> vals ]
    /\ UNCHANGED <<ast, lexVars, tableVars, moduleVars, closureVars, extraVars>>

\* p.call(args) in the script.
CallPtr ==
    /\ outcome.n < MaxPtrCalls
    /\ \E i \in 1..Len(ptrs), args \in ArgLists(0, 2) :
        \E r \in { script_call(ast.functions, functions, ptrs[i], args) } :
           outcome' = [ kind |-> "call", n |-> outcome.n + 1, via |-> "call",
                        ptr |-> ptrs[i], args |-> args, this |-> "", before |-> scope,
                        statements |-> ast.statements,
                        bound |-> r.bound, error |-> r.error, result |-> r.result ]
    /\ UNCHANGED <<ast, ptrs, lexVars, tableVars, moduleVars, closureVars, extraVars>>

\* p.call_dynamic(engine, lib, None, args) in a native function.
CallDynamic ==
    /\ outcome.n < MaxPtrCalls
    /\ \E i \in 1..Len(ptrs), args \in ArgLists(0, 2) :
        \E r \in { call_dynamic(ast.functions, functions, ptrs[i], NoValue, args) } :
           outcome' = [ kind |-> "call", n |-> outcome.n + 1, via |-> "call_dynamic",
                        ptr |-> ptrs[i], args |-> args, this |-> "", before |-> scope,
                        statements |-> ast.statements,
                        bound |-> r.bound, error |-> r.error, result |-> r.result ]
    /\ UNCHANGED <<ast, ptrs, lexVars, tableVars, moduleVars, closureVars, extraVars>>

\* x.bar(p, e): the native function bar calls
\* p.call_dynamic(engine, lib, Some(this), [value]) with `this` the
\* variable x of the caller and `value` a clone of its argument, which is
\* a literal or the value of a variable.
CallDynamicThis ==
    /\ outcome.n < MaxPtrCalls
    /\ \E i \in 1..Len(ptrs), x \in 1..Len(scope),
          value \in ArgValues \cup { scope[j].value : j \in 1..Len(scope) } :
        \E r \in { call_dynamic(ast.functions, functions, ptrs[i], scope[x].value,
                                << value >>) } :
           /\ scope' = [scope EXCEPT ![x].value = r.this]
           /\ outcome' = [ kind |-> "call", n |-> outcome.n + 1, via |-> "call_dynamic",
                           ptr |-> ptrs[i], args |-> << value >>, this |-> scope[x].name,
                           before |-> scope, statements |-> ast.statements,
                           bound |-> r.bound, error |-> r.error, result |-> r.result ]
    /\ UNCHANGED <<ast, ptrs, cells, fnptr, called, lexVars, tableVars, moduleVars, extraVars>>

\* x.bar(Fn(name).curry(v), e): the pointer is curried with the value of
\* a variable of the caller (tests/call_fn.rs:128).
CurryVar ==
    /\ Len(ptrs) = 1
    /\ \E j \in 1..Len(scope) :
          ptrs' = Append(ptrs, curry(ptrs[1], << scope[j].value >>))
    /\ UNCHANGED <<ast, outcome, lexVars, tableVars, moduleVars, closureVars, extraVars>>

\* let x = 21; or let x = 41; then let v = 1; or let v = 2;
LetX ==
    /\ Len(scope) < 2
    /\ \E d \in IF scope = <<>>
                THEN { [name |-> "x", value |-> Dynamic("INT", 21)],
                       [name |-> "x", value |-> Dynamic("INT", 41)] }
                ELSE { [name |-> "v", value |-> w] : w \in ArgValues } :
          scope' = Append(scope, d)
    /\ UNCHANGED <<cells, fnptr, called, pointerVars, lexVars, tableVars, moduleVars, extraVars>>

\* The engine with mul registered (tests/call_fn.rs:93), nothing compiled.
InitPointer ==
    /\ LexerIdle /\ TableIdle /\ ClosureIdle /\ PointerIdle /\ ExtraIdle
    /\ functions = register_fn(EmptyTable, "mul", NativeMul)
    /\ log = << Registration("mul", NativeMul.pars, NativeMul) >>
    /\ got = NoQuery

\* Pointers curried and called, by the script and by native code.
NextPointer ==
    Compile \/ RetainFunctions \/ MakeFnPtr \/ Curry \/ CallPtr \/ CallDynamic

PointerSpec == InitPointer /\ [][NextPointer]_vars

\* Pointers called with a variable of the caller as `this`.
NextThis == LetX \/ Compile \/ MakeFnPtr \/ CurryVar \/ CallDynamicThis

ThisSpec == InitPointer /\ [][NextThis]_vars


-----------------------------------------------------------------------------
(* The token iterator: TokenIterator::next, which maps the tokens of        *)
(* get_next_token through the engine's disabled symbols and custom          *)
(* keywords.  lex() is called with no `map` function.                       *)

\* Token::is_operator
is_operator(tok) ==
    tok.kind \in
        { "LeftBrace", "RightBrace", "LeftParen", "RightParen", "LeftBracket",
          "RightBracket", "Plus", "UnaryPlus", "Minus", "UnaryMinus", "Multiply",
          "Divide", "Modulo", "PowerOf", "LeftShift", "RightShift", "SemiColon",
          "Colon", "DoubleColon", "Comma", "Period", "MapStart", "Equals",
          "LessThan", "GreaterThan", "LessThanEqualsTo", "GreaterThanEqualsTo",
          "EqualsTo", "NotEqualsTo", "Bang", "Pipe", "Or", "XOr", "Ampersand",
          "And", "PlusAssign", "MinusAssign", "MultiplyAssign", "DivideAssign",
          "LeftShiftAssign", "RightShiftAssign", "AndAssign", "OrAssign",
          "XOrAssign", "ModuloAssign", "PowerOfAssign" }

\* Token::is_keyword
is_keyword(tok) ==
    tok.kind \in
        { "Fn", "Private", "Import", "Export", "As", "True", "False", "Let",
          "Const", "If", "Else", "While", "Loop", "For", "In", "Continue",
          "Break", "Return", "Throw" }

\* The messages of the reserved symbols that resemble another language:
\* the symbol, and the text of its ImproperSymbol error.
ImproperSymbols ==
   <<
      \* "===": '===' is not a valid operator. This is not JavaScript! Should it be '=='?
      << <<61, 61, 61>>,
         <<39, 61, 61, 61, 39, 32, 105, 115, 32, 110, 111, 116, 32, 97,
           32, 118, 97, 108, 105, 100, 32, 111, 112, 101, 114, 97, 116,
           111, 114, 46, 32, 84, 104, 105, 115, 32, 105, 115, 32, 110,
           111, 116, 32, 74, 97, 118, 97, 83, 99, 114, 105, 112, 116, 33,
           32, 83, 104, 111, 117, 108, 100, 32, 105, 116, 32, 98, 101, 32,
           39, 61, 61, 39, 63>> >>,
      \* "!==": '!==' is not a valid operator. This is not JavaScript! Should it be '!='?
      << <<33, 61, 61>>,
         <<39, 33, 61, 61, 39, 32, 105, 115, 32, 110, 111, 116, 32, 97,
           32, 118, 97, 108, 105, 100, 32, 111, 112, 101, 114, 97, 116,
           111, 114, 46, 32, 84, 104, 105, 115, 32, 105, 115, 32, 110,
           111, 116, 32, 74, 97, 118, 97, 83, 99, 114, 105, 112, 116, 33,
           32, 83, 104, 111, 117, 108, 100, 32, 105, 116, 32, 98, 101, 32,
           39, 33, 61, 39, 63>> >>,
      \* "->": '->' is not a valid symbol. This is not C or C++!
      << <<45, 62>>,
         <<39, 45, 62, 39, 32, 105, 115, 32, 110, 111, 116, 32, 97, 32,
           118, 97, 108, 105, 100, 32, 115, 121, 109, 98, 111, 108, 46,
           32, 84, 104, 105, 115, 32, 105, 115, 32, 110, 111, 116, 32, 67,
           32, 111, 114, 32, 67, 43, 43, 33>> >>,
      \* "<-": '<-' is not a valid symbol. This is not Go! Should it be '<='?
      << <<60, 45>>,
         <<39, 60, 45, 39, 32, 105, 115, 32, 110, 111, 116, 32, 97, 32,
           118, 97, 108, 105, 100, 32, 115, 121, 109, 98, 111, 108, 46,
           32, 84, 104, 105, 115, 32, 105, 115, 32, 110, 111, 116, 32, 71,
           111, 33, 32, 83, 104, 111, 117, 108, 100, 32, 105, 116, 32, 98,
           101, 32, 39, 60, 61, 39, 63>> >>,
      \* "=>": '=>' is not a valid symbol. This is not Rust! Should it be '>='?
      << <<61, 62>>,
         <<39, 61, 62, 39, 32, 105, 115, 32, 110, 111, 116, 32, 97, 32,
           118, 97, 108, 105, 100, 32, 115, 121, 109, 98, 111, 108, 46,
           32, 84, 104, 105, 115, 32, 105, 115, 32, 110, 111, 116, 32, 82,
           117, 115, 116, 33, 32, 83, 104, 111, 117, 108, 100, 32, 105,
           116, 32, 98, 101, 32, 39, 62, 61, 39, 63>> >>,
      \* ":=": ':=' is not a valid assignment operator. This is not Go! Should it be simply '='?
      << <<58, 61>>,
         <<39, 58, 61, 39, 32, 105, 115, 32, 110, 111, 116, 32, 97, 32,
           118, 97, 108, 105, 100, 32, 97, 115, 115, 105, 103, 110, 109,
           101, 110, 116, 32, 111, 112, 101, 114, 97, 116, 111, 114, 46,
           32, 84, 104, 105, 115, 32, 105, 115, 32, 110, 111, 116, 32, 71,
           111, 33, 32, 83, 104, 111, 117, 108, 100, 32, 105, 116, 32, 98,
           101, 32, 115, 105, 109, 112, 108, 121, 32, 39, 61, 39, 63>> >>,
      \* "::<": '::<>' is not a valid symbol. This is not Rust! Should it be '::'?
      << <<58, 58, 60>>,
         <<39, 58, 58, 60, 62, 39, 32, 105, 115, 32, 110, 111, 116, 32,
           97, 32, 118, 97, 108, 105, 100, 32, 115, 121, 109, 98, 111,
           108, 46, 32, 84, 104, 105, 115, 32, 105, 115, 32, 110, 111,
           116, 32, 82, 117, 115, 116, 33, 32, 83, 104, 111, 117, 108,
           100, 32, 105, 116, 32, 98, 101, 32, 39, 58, 58, 39, 63>> >>,
      \* "(*": '( * .. * )' is not a valid comment format. This is not Pascal! Should it be '/* .. */'?
      << <<40, 42>>,
         <<39, 40, 42, 32, 46, 46, 32, 42, 41, 39, 32, 105, 115, 32, 110,
           111, 116, 32, 97, 32, 118, 97, 108, 105, 100, 32, 99, 111, 109,
           109, 101, 110, 116, 32, 102, 111, 114, 109, 97, 116, 46, 32,
           84, 104, 105, 115, 32, 105, 115, 32, 110, 111, 116, 32, 80, 97,
           115, 99, 97, 108, 33, 32, 83, 104, 111, 117, 108, 100, 32, 105,
           116, 32, 98, 101, 32, 39, 47, 42, 32, 46, 46, 32, 42, 47, 39,
           63>> >>,
      \* "*)": '( * .. * )' is not a valid comment format. This is not Pascal! Should it be '/* .. */'?
      << <<42, 41>>,
         <<39, 40, 42, 32, 46, 46, 32, 42, 41, 39, 32, 105, 115, 32, 110,
           111, 116, 32, 97, 32, 118, 97, 108, 105, 100, 32, 99, 111, 109,
           109, 101, 110, 116, 32, 102, 111, 114, 109, 97, 116, 46, 32,
           84, 104, 105, 115, 32, 105, 115, 32, 110, 111, 116, 32, 80, 97,
           115, 99, 97, 108, 33, 32, 83, 104, 111, 117, 108, 100, 32, 105,
           116, 32, 98, 101, 32, 39, 47, 42, 32, 46, 46, 32, 42, 47, 39,
           63>> >>,
      \* "#": '#' is not a valid symbol. Should it be '#{'?
      << <<35>>,
         <<39, 35, 39, 32, 105, 115, 32, 110, 111, 116, 32, 97, 32, 118,
           97, 108, 105, 100, 32, 115, 121, 109, 98, 111, 108, 46, 32, 83,
           104, 111, 117, 108, 100, 32, 105, 116, 32, 98, 101, 32, 39, 35,
           123, 39, 63>> >> >>

\* format!("'{}' is a reserved symbol", token)
is_a_reserved_symbol(tok) ==
    <<39>> \o tok \o
    <<39, 32, 105, 115, 32, 97, 32, 114, 101, 115, 101, 114, 118, 101, 100, 32,
      115, 121, 109, 98, 111, 108>>

\* format!("reserved symbol '{}' is disabled", token)
reserved_symbol_is_disabled(tok) ==
    <<114, 101, 115, 101, 114, 118, 101, 100, 32, 115, 121, 109, 98, 111, 108,
      32, 39>> \o tok \o
    <<39, 32, 105, 115, 32, 100, 105, 115, 97, 98, 108, 101, 100>>

\* Option::map(|c| c.contains(&s)).unwrap_or(false)
contains(opt, s) == opt.is_some /\ s \in opt.keys

\* A faulty mapping of Token::Reserved(s) that reports every reserved
\* entry that is not custom as an error, the reserved words too; the
\* token of a reserved word (C22) tells it from reserved_token.
reserved_token_all_errors(s, disabled, custom) ==
    IF contains(custom, s) THEN Custom(s)
    ELSE IF \E i \in 1..Len(ImproperSymbols) : ImproperSymbols[i][1] = s
      THEN LexError("ImproperSymbol",
             ImproperSymbols[CHOOSE i \in 1..Len(ImproperSymbols) :
                                ImproperSymbols[i][1] = s][2])
    ELSE LexError("ImproperSymbol", is_a_reserved_symbol(s))

\* The arm of Token::Reserved(s): the inner match on the symbol and on
\* whether it is a custom keyword.
reserved_token(s, disabled, custom) ==
    IF ~contains(custom, s) /\ \E i \in 1..Len(ImproperSymbols) : ImproperSymbols[i][1] = s
      THEN LexError("ImproperSymbol",
             ImproperSymbols[CHOOSE i \in 1..Len(ImproperSymbols) :
                                ImproperSymbols[i][1] = s][2])
    \* Reserved keyword/operator that is custom.
    ELSE IF contains(custom, s) THEN Custom(s)
    \* Reserved operator that is not custom.
    ELSE IF ~is_valid_identifier(s)
      THEN LexError("ImproperSymbol", is_a_reserved_symbol(s))
    \* Reserved keyword that is not custom and disabled.
    ELSE IF contains(disabled, s)
      THEN LexError("ImproperSymbol", reserved_symbol_is_disabled(s))
    \* Reserved keyword/operator that is not custom.
    ELSE Reserved(s)

\* A faulty mapping of the other tokens in which a disabled standard
\* keyword stays the keyword; C23 tells it from mapped_token.
mapped_token_keeping_keywords(tok, disabled, custom) ==
    IF tok.kind = "Identifier" /\ contains(custom, tok.text) THEN [ok |-> TRUE, tok |-> Custom(tok.text)]
    ELSE IF is_operator(tok) /\ contains(disabled, syntax(tok.kind))
      THEN [ok |-> TRUE, tok |-> LexError("UnexpectedInput", syntax(tok.kind))]
    ELSE [ok |-> TRUE, tok |-> tok]

\* The arms after Token::Reserved: [ok, tok], ok is FALSE where the code
\* reaches unreachable!().
mapped_token(tok, disabled, custom) ==
    \* Custom keyword
    IF tok.kind = "Identifier" /\ contains(custom, tok.text)
      THEN [ok |-> TRUE, tok |-> Custom(tok.text)]
    \* Custom standard keyword - must be disabled
    ELSE IF /\ disabled.is_some /\ custom.is_some
            /\ is_keyword(tok) /\ syntax(tok.kind) \in custom.keys
      THEN IF syntax(tok.kind) \in disabled.keys
           THEN [ok |-> TRUE, tok |-> Custom(syntax(tok.kind))]
           ELSE [ok |-> FALSE, tok |-> tok]
    \* Disabled operator
    ELSE IF is_operator(tok) /\ contains(disabled, syntax(tok.kind))
      THEN [ok |-> TRUE, tok |-> LexError("UnexpectedInput", syntax(tok.kind))]
    \* Disabled standard keyword
    ELSE IF is_keyword(tok) /\ contains(disabled, syntax(tok.kind))
      THEN [ok |-> TRUE, tok |-> Reserved(syntax(tok.kind))]
    ELSE [ok |-> TRUE, tok |-> tok]

\* TokenIterator::next: the result of get_next_token, with its token mapped.
TokenIterator_next(s, st, p, eng) ==
    Bind(get_next_token(s, st, p), LAMBDA r :
      IF r.status # "Some" THEN r
      ELSE IF r.tok.kind = "Reserved"
        THEN [r EXCEPT !.tok = reserved_token(r.tok.text, eng.disabled_symbols,
                                              eng.custom_keywords)]
      ELSE Bind(mapped_token(r.tok, eng.disabled_symbols, eng.custom_keywords),
                LAMBDA m : IF m.ok THEN [r EXCEPT !.tok = m.tok]
                           ELSE [r EXCEPT !.status = "Panic"]))

\* The words of the scripts lexed through the iterator: reserved symbols
\* and words, standard keywords and operators, an identifier.
IterWords ==
    { <<61, 61, 61>>,                \* "==="
      <<35>>,                        \* "#"
      <<110, 101, 119>>,             \* "new"
      <<112, 114, 105, 110, 116>>,   \* "print"
      <<108, 101, 116>>,             \* "let"
      <<105, 110>>,                  \* "in"
      <<43>>,                        \* "+"
      <<45>>,                        \* "-"
      <<102, 111, 111>> }            \* "foo"

\* Most words in a script, when there is more than one.
MaxIterWords == 2

\* The scripts: every entry of the reserved table alone, and the lists of
\* words.
IterScripts ==
    { <<w>> : w \in ReservedSyntax \cup KeywordSyntax }
        \cup UNION { [1..k -> IterWords] : k \in 0..MaxIterWords }

\* The words separated by blanks.
RECURSIVE JoinWords(_)
JoinWords(ws) ==
    IF ws = <<>> THEN <<>>
    ELSE IF Len(ws) = 1 THEN ws[1]
    ELSE ws[1] \o <<CH.space>> \o JoinWords(Tail(ws))

\* The sets an engine may hold for a script: none, an empty one, or one
\* of a word of the script.
KeySetsOf(ws) ==
    { None_keys, Some_keys({}) } \cup { Some_keys({ws[i]}) : i \in 1..Len(ws) }

\* The engine registers no active standard keyword as a custom keyword:
\* the keyword has to be disabled first.
LegalEngine(eng) ==
    \A k \in eng.custom_keywords.keys :
        is_keyword(lookup_from_syntax(k)) => contains(eng.disabled_symbols, k)

\* lex(input, None, engine): the iterator over the script.
InitIter ==
    \E ws \in IterScripts :
    \E d \in KeySetsOf(ws), c \in KeySetsOf(ws) :
        /\ LegalEngine([disabled_symbols |-> d, custom_keywords |-> c])
        /\ TableIdle /\ ModuleIdle /\ ClosureIdle /\ PointerIdle
        /\ PositionIdle /\ PackageIdle /\ ResolverIdle /\ LateIdle
        /\ stream = JoinWords(ws)
        /\ state = TokenizeState(0, FALSE, 0, FALSE, FALSE)
        /\ pos = Position_new(1, 0)
        /\ last = NoCall
        /\ prev = NoCall
        /\ eos = 0
        /\ panicked = FALSE
        /\ engine = [disabled_symbols |-> d, custom_keywords |-> c]
        /\ item = NoItem

\* One call of TokenIterator::next.  `last` records the call of
\* get_next_token it makes, `item` what the iterator yields.
IterNext ==
    /\ last.status # "NoSession"
    /\ ~panicked
    /\ eos < MaxEos
    /\ \E g \in { get_next_token(stream, state, pos) },
          r \in { TokenIterator_next(stream, state, pos, engine) } :
       LET call == [ status |-> g.status, tok |-> g.tok, tpos |-> g.tpos,
                     input |-> stream, state |-> state, pos |-> pos ]
       IN /\ stream' = r.stream
          /\ state' = r.state
          /\ pos' = r.pos
          /\ last' = call
          /\ prev' = last
          /\ eos' = IF IsEos(call) THEN eos + 1 ELSE eos
          /\ panicked' = (r.status = "Panic")
          /\ item' = [status |-> r.status, tok |-> r.tok, tpos |-> r.tpos]
    /\ UNCHANGED <<engine, tableVars, moduleVars, closureVars, pointerVars,
                   positionVars, packageVars, resolverVars, lateVars>>

NextIter == IterNext

IterSpec == InitIter /\ [][NextIter]_vars


-----------------------------------------------------------------------------
(* Positions: a Position value that is created and then moved by advance,   *)
(* new_line and rewind.  A failed assertion panics: the value is left as    *)
(* it was and nothing more is done with it.                                 *)

\* Most operations on the value after its creation.
MaxMoves == 3

\* Lines and columns at both ends of u16.
EdgeValues == { 0, 1, U16_MAX - 1, U16_MAX }

Moved(op, from, failed) ==
    [op |-> op, n |-> moved.n + 1, from |-> from, panicked |-> failed]

\* Position::new(line, position)
PositionNew ==
    /\ moved.op = "none"
    /\ \E line \in EdgeValues, column \in EdgeValues :
         IF Position_new_asserts(line, column)
         THEN /\ cursor' = Position_new(line, column)
              /\ moved' = [op |-> "new", n |-> 0, from |-> cursor, panicked |-> FALSE]
         ELSE /\ cursor' = cursor
              /\ moved' = [op |-> "new", n |-> 0, from |-> cursor, panicked |-> TRUE]
    /\ UNCHANGED <<lexVars, tableVars, moduleVars, closureVars, pointerVars,
                   iterVars, packageVars, resolverVars, lateVars>>

\* Position::default()
PositionDefault ==
    /\ moved.op = "none"
    /\ cursor' = Position_new(1, 0)
    /\ moved' = [op |-> "default", n |-> 0, from |-> cursor, panicked |-> FALSE]
    /\ UNCHANGED <<lexVars, tableVars, moduleVars, closureVars, pointerVars,
                   iterVars, packageVars, resolverVars, lateVars>>

\* Position::none()
PositionNone ==
    /\ moved.op = "none"
    /\ cursor' = Position_none
    /\ moved' = [op |-> "none()", n |-> 0, from |-> cursor, panicked |-> FALSE]
    /\ UNCHANGED <<lexVars, tableVars, moduleVars, closureVars, pointerVars,
                   iterVars, packageVars, resolverVars, lateVars>>

\* The value exists and may be operated on.
Movable == moved.op # "none" /\ ~moved.panicked /\ moved.n < MaxMoves

\* position.advance()
Advance ==
    /\ Movable
    /\ IF is_none(cursor)
       THEN cursor' = cursor /\ moved' = Moved("advance", cursor, TRUE)
       ELSE cursor' = advance(cursor) /\ moved' = Moved("advance", cursor, FALSE)
    /\ UNCHANGED <<lexVars, tableVars, moduleVars, closureVars, pointerVars,
                   iterVars, packageVars, resolverVars, lateVars>>

\* position.rewind()
Rewind ==
    /\ Movable
    /\ IF is_none(cursor) \/ ~(cursor.pos > 0)
       THEN cursor' = cursor /\ moved' = Moved("rewind", cursor, TRUE)
       ELSE cursor' = rewind(cursor) /\ moved' = Moved("rewind", cursor, FALSE)
    /\ UNCHANGED <<lexVars, tableVars, moduleVars, closureVars, pointerVars,
                   iterVars, packageVars, resolverVars, lateVars>>

\* position.new_line()
NewLine ==
    /\ Movable
    /\ IF is_none(cursor)
       THEN cursor' = cursor /\ moved' = Moved("new_line", cursor, TRUE)
       ELSE cursor' = new_line(cursor) /\ moved' = Moved("new_line", cursor, FALSE)
    /\ UNCHANGED <<lexVars, tableVars, moduleVars, closureVars, pointerVars,
                   iterVars, packageVars, resolverVars, lateVars>>

NextPosition ==
    PositionNew \/ PositionDefault \/ PositionNone \/ Advance \/ Rewind \/ NewLine

PositionSpec == InitIdle /\ [][NextPosition]_vars


-----------------------------------------------------------------------------
(* Packages: a module filled by combining exported modules into it, as     *)
(* reg_functions! does (packages/logic.rs).  A module is its table of       *)
(* functions, keyed by name and argument types, and its table of            *)
(* constants, keyed by name.                                                *)

\* A function of an exported module: pure, with the parameter types given.
Exported(fn, pars) == [abi |-> "Pure", fn |-> fn, pars |-> pars]

\* exported_module!(root::T::functions) of gen_cmp_functions!: the
\* comparison operators on T (two of the six).
cmp_functions(T) ==
    [ functions |->
        set_fn(set_fn(EmptyTable, "<", "Public", <<T, T>>, Exported("lt", <<T, T>>)),
               "==", "Public", <<T, T>>, Exported("eq", <<T, T>>)),
      variables |-> EmptyTable ]

\* The modules of codegen/tests/test_modules.rs with a function or a
\* constant of FLOAT: advanced_math of one_fn_module, with a function of no
\* parameters, and advanced_math of one_fn_and_const_module, with a
\* constant and a function of four FLOAT.
one_fn_module ==
    [ functions |-> set_fn(EmptyTable, "get_mystic_number", "Public", <<>>,
                           Exported("get_mystic_number", <<>>)),
      variables |-> EmptyTable ]

advanced_math ==
    [ functions |-> set_fn(EmptyTable, "euclidean_distance", "Public",
                           <<"FLOAT", "FLOAT", "FLOAT", "FLOAT">>,
                           Exported("euclidean_distance",
                                    <<"FLOAT", "FLOAT", "FLOAT", "FLOAT">>)),
      variables |-> [name \in {"MYSTIC_NUMBER"} |-> Dynamic("FLOAT", 42)] ]

\* The modules combined: comparison operators of three types, a module
\* that defines `<` on i8 again, and the two modules of the tests.
ExportedModules ==
    { cmp_functions("i8"), cmp_functions("u8"), cmp_functions("f32"),
      [ functions |-> set_fn(EmptyTable, "<", "Public", <<"i8", "i8">>,
                             Exported("lt_other", <<"i8", "i8">>)),
        variables |-> EmptyTable ],
      one_fn_module,
      advanced_math }

\* The entries of both tables; those of `a` where both have the key.
merge_keeping(a, b) ==
    [k \in DOMAIN a \cup DOMAIN b |-> IF k \in DOMAIN a THEN a[k] ELSE b[k]]

\* The entries of both tables; those of `b` where both have the key.
merge(a, b) ==
    [k \in DOMAIN a \cup DOMAIN b |-> IF k \in DOMAIN b THEN b[k] ELSE a[k]]

\* A faulty combine in which the entries the module already has are kept;
\* C28 tells it from combine.
combine_keeping(self, other) ==
    [ functions |-> merge_keeping(self.functions, other.functions),
      variables |-> merge_keeping(self.variables, other.variables) ]

\* Module::combine_flatten(other) for a module without sub-modules: the
\* functions and constants of `other` are inserted into `self`.
combine(self, other) ==
    [ functions |-> merge(self.functions, other.functions),
      variables |-> merge(self.variables, other.variables) ]

\* Most modules combined into the package.
MaxParts == 3

\* lib.combine_flatten(m)
Combine ==
    /\ combined.n < MaxParts
    /\ \E m \in ExportedModules :
        /\ package' = combine(package, m)
        /\ combined' = [n |-> combined.n + 1, parts |-> Append(combined.parts, m)]
    /\ UNCHANGED <<lexVars, tableVars, moduleVars, closureVars, pointerVars,
                   iterVars, positionVars, resolverVars, lateVars>>

\* a.combine_flatten(b); lib.combine_flatten(a): two modules are combined
\* first, and the result is combined into the package.
CombineGroup ==
    /\ combined.n + 1 < MaxParts
    /\ \E a \in ExportedModules, b \in ExportedModules :
        /\ package' = combine(package, combine(a, b))
        /\ combined' = [n |-> combined.n + 2, parts |-> combined.parts \o <<a, b>>]
    /\ UNCHANGED <<lexVars, tableVars, moduleVars, closureVars, pointerVars,
                   iterVars, positionVars, resolverVars, lateVars>>

NextPackage == Combine \/ CombineGroup

PackageSpec == InitIdle /\ [][NextPackage]_vars


-----------------------------------------------------------------------------
(* Imports: a StaticModuleResolver filled before the script runs, and a     *)
(* script of `import "path" as alias;` statements and qualified names       *)
(* alias::function(...) and alias::CONSTANT, as in                          *)
(* codegen/tests/test_modules.rs.                                           *)

\* The modules of the tests: EmptyModule, advanced_math (defined with the
\* packages, with a constant and a function), host_io with a function of a string.
EmptyModule == NoModule

host_io ==
    [ functions |-> set_fn(EmptyTable, "write_out_str", "Public", <<"ImmutableString">>,
                           Exported("write_out_str", <<"&str">>)),
      variables |-> EmptyTable ]

TestModules == { EmptyModule, advanced_math, host_io }

\* The paths inserted and imported; two of them differ in case only.
ImportPaths == { "Math::Advanced", "math::advanced", "Host::IO" }

ImportAliases == { "math", "io" }

\* StaticModuleResolver::insert(path, module)
insert(r, path, module) ==
    [p \in DOMAIN r \cup {path} |-> IF p = path THEN module ELSE r[p]]

\* A faulty resolve that gives an empty module for a path that was never
\* inserted; C30 tells it from resolve.
resolve_lenient(r, path) ==
    IF path \in DOMAIN r
    THEN [ok |-> TRUE, module |-> r[path], error |-> "", path |-> ""]
    ELSE [ok |-> TRUE, module |-> NoModule, error |-> "", path |-> ""]

\* StaticModuleResolver::resolve(path): the module inserted under the
\* path, or the error that carries the path.
resolve(r, path) ==
    IF path \in DOMAIN r
    THEN [ok |-> TRUE, module |-> r[path], error |-> "", path |-> ""]
    ELSE [ok |-> FALSE, module |-> NoModule, error |-> "ErrorModuleNotFound",
          path |-> path]

\* Most insertions into the resolver, and most statements of the script.
MaxInserts == 2
MaxStatements == 2

\* r.insert(path, module) on the resolver r that the host made with
\* StaticModuleResolver::new() and has not yet given to the engine.
Insert ==
    /\ resolved.kind = "none"
    /\ Cardinality(DOMAIN host_resolver) < MaxInserts
    /\ \E path \in ImportPaths, module \in TestModules :
          host_resolver' = insert(host_resolver, path, module)
    /\ UNCHANGED <<resolver, imports, resolved, lexVars, tableVars, moduleVars, closureVars,
                   pointerVars, iterVars, positionVars, packageVars, lateVars>>

\* Engine::set_module_resolver(Some(r)): the engine's resolver is r, in
\* place of the one it had; r is moved, and a resolver the host makes
\* after that is a new one.
set_module_resolver(r) == r

\* engine.set_module_resolver(Some(r)), before the script runs.
SetModuleResolver ==
    /\ resolved.kind = "none"
    /\ resolver' = set_module_resolver(host_resolver)
    /\ host_resolver' = EmptyTable
    /\ UNCHANGED <<imports, resolved, lexVars, tableVars, moduleVars, closureVars,
                   pointerVars, iterVars, positionVars, packageVars, lateVars>>

\* The script runs on: no statement has failed, and it has statements left.
Running == resolved.ok /\ resolved.n < MaxStatements

\* import "path" as alias;
Import ==
    /\ Running
    /\ \E path \in ImportPaths, alias \in ImportAliases :
        \E m \in { resolve(resolver, path) } :
          /\ imports' = IF m.ok THEN insert(imports, alias, m.module) ELSE imports
          /\ resolved' = [kind |-> "import", n |-> resolved.n + 1, ok |-> m.ok,
                          path |-> path, alias |-> alias, name |-> m.path,
                          error |-> m.error, found |-> NoCallable, before |-> imports]
    /\ UNCHANGED <<resolver, host_resolver, lexVars, tableVars, moduleVars, closureVars,
                   pointerVars, iterVars, positionVars, packageVars, lateVars>>

\* alias::name(args): the function of the imported module with that name
\* and those argument types.
QualifiedCall ==
    /\ Running
    /\ \E alias \in DOMAIN imports,
          call \in { << "euclidean_distance", <<"FLOAT", "FLOAT", "FLOAT", "FLOAT">> >>,
                     << "write_out_str", <<"ImmutableString">> >> } :
        \E f \in { get_fn(imports[alias].functions, call[1], call[2]) } :
          resolved' = [kind |-> "fn", n |-> resolved.n + 1, ok |-> f # NoCallable,
                       path |-> "", alias |-> alias, name |-> call[1],
                       error |-> IF f = NoCallable THEN "ErrorFunctionNotFound" ELSE "",
                       found |-> f, before |-> imports]
    /\ UNCHANGED <<resolver, host_resolver, imports, lexVars, tableVars, moduleVars,
                   closureVars,
                   pointerVars, iterVars, positionVars, packageVars, lateVars>>

\* alias::NAME: the constant of the imported module.
QualifiedConstant ==
    /\ Running
    /\ \E alias \in DOMAIN imports, name \in { "MYSTIC_NUMBER" } :
        LET vs == imports[alias].variables IN
          resolved' = [kind |-> "const", n |-> resolved.n + 1, ok |-> name \in DOMAIN vs,
                       path |-> "", alias |-> alias, name |-> name,
                       error |-> IF name \in DOMAIN vs THEN "" ELSE "ErrorVariableNotFound",
                       found |-> IF name \in DOMAIN vs THEN vs[name] ELSE Unit,
                       before |-> imports]
    /\ UNCHANGED <<resolver, host_resolver, imports, lexVars, tableVars, moduleVars,
                   closureVars,
                   pointerVars, iterVars, positionVars, packageVars, lateVars>>

\* The module that AdvancedMathPlugin builds (fn_register.rs:80-93): the
\* plugin function under its name and its four NUMBER parameters.
plugin_math ==
    [ functions |-> set_fn(EmptyTable, "euclidean_distance", "Public",
                           <<"FLOAT", "FLOAT", "FLOAT", "FLOAT">>,
                           [abi |-> "Plugin", fn |-> "euclidean_distance",
                            pars |-> <<"FLOAT", "FLOAT", "FLOAT", "FLOAT">>]),
      variables |-> EmptyTable ]

\* AdvancedMathPlugin::register_contents(engine): the plugin registers a
\* function with the engine and sets a module resolver of its own, which
\* holds its module under "Math::Advanced".
register_contents(fs) ==
    [ functions |-> register_fn(fs, "get_mystic_number", get_mystic_number),
      resolver  |-> insert(EmptyTable, "Math::Advanced", plugin_math) ]

\* Engine::register_plugin(plugin)
register_plugin(fs) == register_contents(fs)

\* engine.register_plugin(AdvancedMathPlugin()), before the script runs.
RegisterPlugin ==
    /\ resolved.kind = "none"
    /\ log = <<>>
    /\ \E r \in { register_plugin(functions) } :
        /\ functions' = r.functions
        /\ resolver' = set_module_resolver(r.resolver)
        /\ log' = Append(log, Registration("get_mystic_number", <<>>, get_mystic_number))
    /\ UNCHANGED <<got, host_resolver, imports, resolved, lexVars, tableVars, closureVars,
                   pointerVars, iterVars, positionVars, packageVars, lateVars>>

NextImport ==
    \/ Insert \/ SetModuleResolver \/ RegisterPlugin
    \/ Import \/ QualifiedCall \/ QualifiedConstant

ImportSpec == InitIdle /\ [][NextImport]_vars


-----------------------------------------------------------------------------
(* Arithmetic: the checked functions of packages/arithmetic.rs, called on   *)
(* the integer types they are registered for.  A value of a type is an      *)
(* integer in the type's range; the shift count, an INT of 64 bits, is its  *)
(* four 16-bit limbs in two's complement, lowest first.                     *)

RECURSIVE Pow2(_)
Pow2(n) == IF n = 0 THEN 1 ELSE 2 * Pow2(n - 1)

\* The types of reg_op! and reg_unary! whose values fit the checker's
\* integers; for mul, those whose products do.
i8 == [name |-> "i8", signed |-> TRUE, bits |-> 8]
u8 == [name |-> "u8", signed |-> FALSE, bits |-> 8]
i16 == [name |-> "i16", signed |-> TRUE, bits |-> 16]
u16 == [name |-> "u16", signed |-> FALSE, bits |-> 16]

OpTypes == { i8, u8, i16, u16 }
MulTypes == { i8, u8, i16 }
UnaryTypes == { i8, i16 }

MIN(T) == IF T.signed THEN -Pow2(T.bits - 1) ELSE 0
MAX(T) == IF T.signed THEN Pow2(T.bits - 1) - 1 ELSE Pow2(T.bits) - 1

\* The w-bit value with the same low bits as n.
wrapping(T, n) == ((n - MIN(T)) % Pow2(T.bits)) + MIN(T)

Magnitude(n) == IF n < 0 THEN -n ELSE n

\* Rust's `/` and `%` on integers: the quotient rounds toward zero.
quotient(x, y) ==
    IF (x < 0) = (y < 0) THEN Magnitude(x) \div Magnitude(y)
    ELSE -(Magnitude(x) \div Magnitude(y))

remainder(x, y) == x - y * quotient(x, y)

None_value == [is_some |-> FALSE, value |-> 0]
Some_value(v) == [is_some |-> TRUE, value |-> v]

\* A faulty checked_add that gives the wrapped sum; C31 tells it from
\* checked_add.
checked_add_wrapping(T, x, y) == Some_value(wrapping(T, x + y))

\* The checked_* methods of the integer types (num_traits' Checked*
\* traits call them).
checked_add(T, x, y) ==
    IF wrapping(T, x + y) # x + y THEN None_value ELSE Some_value(wrapping(T, x + y))

checked_sub(T, x, y) ==
    IF wrapping(T, x - y) # x - y THEN None_value ELSE Some_value(wrapping(T, x - y))

checked_mul(T, x, y) ==
    IF wrapping(T, x * y) # x * y THEN None_value ELSE Some_value(wrapping(T, x * y))

checked_div(T, x, y) ==
    IF y = 0 \/ (T.signed /\ x = MIN(T) /\ y = -1) THEN None_value
    ELSE Some_value(quotient(x, y))

checked_rem(T, x, y) ==
    IF y = 0 \/ (T.signed /\ x = MIN(T) /\ y = -1) THEN None_value
    ELSE Some_value(remainder(x, y))

checked_neg(T, x) ==
    IF wrapping(T, -x) # -x THEN None_value ELSE Some_value(wrapping(T, -x))

\* An INT as limbs: of a value n with -Limb < n < Limb * (Limb \div 2).
Limb == Pow2(16)

INT_from(n) ==
    IF n >= 0 THEN << n % Limb, n \div Limb, 0, 0 >>
    ELSE << Limb + n, Limb - 1, Limb - 1, Limb - 1 >>

\* y < 0, for an INT
is_negative(y) == y[4] >= Limb \div 2

\* `y as u32`: the low 32 bits.
as_u32(y) == << y[1], y[2] >>

\* n >= bits and n & (bits - 1), for a u32 n and a power of two bits <= Limb
at_least(n, bits) == n[2] # 0 \/ n[1] >= bits
masked(n, bits) == n[1] % bits

\* The value of the INT when it is a shift count that the type admits,
\* and -1 when it is not: negative, or at least the bit width.
ShiftCount(y, bits) ==
    IF y[2] = 0 /\ y[3] = 0 /\ y[4] = 0 /\ y[1] < bits THEN y[1] ELSE -1

checked_shl(T, x, n) ==
    IF at_least(n, T.bits) THEN None_value
    ELSE Some_value(wrapping(T, x * Pow2(masked(n, T.bits))))

checked_shr(T, x, n) ==
    IF at_least(n, T.bits) THEN None_value
    ELSE Some_value(x \div Pow2(masked(n, T.bits)))

\* FuncReturn<T>: Ok(value), or the ErrorArithmetic with its message and
\* Position::none().
Ok(v) == [ok |-> TRUE, value |-> v]
ErrorArithmetic(message, position) ==
    [ok |-> FALSE, error |-> "ErrorArithmetic", message |-> message, position |-> position]

ok_or_else(opt, err) == IF opt.is_some THEN Ok(opt.value) ELSE err

add(T, x, y) ==
    ok_or_else(checked_add(T, x, y),
               ErrorArithmetic(<<"Addition overflow", x, "+", y>>, Position_none))

sub(T, x, y) ==
    ok_or_else(checked_sub(T, x, y),
               ErrorArithmetic(<<"Subtraction underflow", x, "-", y>>, Position_none))

mul(T, x, y) ==
    ok_or_else(checked_mul(T, x, y),
               ErrorArithmetic(<<"Multiplication overflow", x, "*", y>>, Position_none))

div(T, x, y) ==
    IF y = 0
    THEN ErrorArithmetic(<<"Division by zero", x, "/", y>>, Position_none)
    ELSE ok_or_else(checked_div(T, x, y),
                    ErrorArithmetic(<<"Division overflow", x, "/", y>>, Position_none))

neg(T, x) ==
    ok_or_else(checked_neg(T, x),
               ErrorArithmetic(<<"Negation overflow", "-", x>>, Position_none))

abs(T, x) ==
    IF x >= 0 THEN Ok(x)
    ELSE ok_or_else(checked_neg(T, x),
                    ErrorArithmetic(<<"Negation overflow", "-", x>>, Position_none))

shl(T, x, y) ==
    IF is_negative(y)
    THEN ErrorArithmetic(<<"Left-shift by a negative number", x, "<<", y>>, Position_none)
    ELSE ok_or_else(checked_shl(T, x, as_u32(y)),
                    ErrorArithmetic(<<"Left-shift by too many bits", x, "<<", y>>,
                                    Position_none))

shr(T, x, y) ==
    IF is_negative(y)
    THEN ErrorArithmetic(<<"Right-shift by a negative number", x, ">>", y>>, Position_none)
    ELSE ok_or_else(checked_shr(T, x, as_u32(y)),
                    ErrorArithmetic(<<"Right-shift by too many bits", x, "%", y>>,
                                    Position_none))

modulo(T, x, y) ==
    ok_or_else(checked_rem(T, x, y),
               ErrorArithmetic(<<"Modulo division by zero or overflow", x, "%", y>>,
                               Position_none))

\* The operands: the values within MaxSmall of zero and of the ends of
\* the type's range.
MaxSmall == 3

Operands(T) ==
    { v \in (-MaxSmall..MaxSmall) \cup (MIN(T)..(MIN(T) + MaxSmall))
              \cup ((MAX(T) - MaxSmall)..MAX(T)) : MIN(T) <= v /\ v <= MAX(T) }

\* The shift counts: around zero and the bit widths, the counts whose
\* low 32 bits are a count the type admits, and the ends of INT's range.
ShiftCounts ==
    { INT_from(n) : n \in (-MaxSmall..MaxSmall) \cup { 7, 8, 9, 15, 16, 17, Limb - 1, Limb } }
        \cup { << n, 0, 1, 0 >> : n \in 0..MaxSmall }
        \cup { << n, 0, 0, 1 >> : n \in 0..MaxSmall }
        \cup { << Limb - 1, Limb - 1, Limb - 1, Limb \div 2 - 1 >>,
               << 0, 0, 0, Limb \div 2 >> }

\* The call to be made: a type, two operands and a shift count.
NoResult == [ok |-> FALSE, error |-> "", message |-> <<>>, position |-> Position_none]

InitArithmetic ==
    /\ LexerIdle /\ TableIdle /\ ModuleIdle /\ ClosureIdle /\ PointerIdle
    /\ IterIdle /\ PositionIdle /\ PackageIdle /\ ResolverIdle /\ LockIdle /\ TwinIdle
    /\ \E T \in OpTypes : \E x \in Operands(T), y \in Operands(T), n \in ShiftCounts :
          calc = [fn |-> "none", T |-> T, x |-> x, y |-> y, count |-> n,
                  result |-> NoResult]

Calculated(fn, result) ==
    /\ calc' = [calc EXCEPT !.fn = fn, !.result = result]
    /\ UNCHANGED <<lexVars, tableVars, moduleVars, closureVars, pointerVars,
                   iterVars, positionVars, packageVars, resolverVars, lockVars, twin>>

\* reg_op! and reg_unary!: the types each function is called on.
Callable(types) == calc.fn = "none" /\ calc.T \in types

Add == Callable(OpTypes) /\ Calculated("add", add(calc.T, calc.x, calc.y))

Sub == Callable(OpTypes) /\ Calculated("sub", sub(calc.T, calc.x, calc.y))

Mul == Callable(MulTypes) /\ Calculated("mul", mul(calc.T, calc.x, calc.y))

Div == Callable(OpTypes) /\ Calculated("div", div(calc.T, calc.x, calc.y))

Modulo == Callable(OpTypes) /\ Calculated("modulo", modulo(calc.T, calc.x, calc.y))

Neg == Callable(UnaryTypes) /\ Calculated("neg", neg(calc.T, calc.x))

Abs == Callable(UnaryTypes) /\ Calculated("abs", abs(calc.T, calc.x))

Shl == Callable(OpTypes) /\ Calculated("shl", shl(calc.T, calc.x, calc.count))

Shr == Callable(OpTypes) /\ Calculated("shr", shr(calc.T, calc.x, calc.count))

NextArithmetic == Add \/ Sub \/ Mul \/ Div \/ Modulo \/ Neg \/ Abs \/ Shl \/ Shr

ArithmeticSpec == InitArithmetic /\ [][NextArithmetic]_vars


-----------------------------------------------------------------------------
(* Write locks: a native function registered with a `&mut` first parameter  *)
(* is called on a shared value.  The closure that make_func builds takes    *)
(* the write lock of the first argument (by_ref), calls the function, maps  *)
(* its result and ends; the lock guard is a local of the closure.  The      *)
(* steps of the closure are separate actions, so that the lock is seen      *)
(* while it is held.                                                        *)

\* Dynamic::write_lock on the shared value c: the guard, or None when the
\* value is locked already.
write_lock(locks, c) ==
    IF locks[c] THEN [is_some |-> FALSE, locks |-> locks]
    ELSE [is_some |-> TRUE, locks |-> [locks EXCEPT ![c] = TRUE]]

\* A faulty end of the closure that keeps the guard when the function
\* returned an error; C32 tells it from end_of_call.
end_of_call_keeping_on_error(locks, fr) ==
    IF fr.r = "Err" THEN locks ELSE [locks EXCEPT ![fr.cell] = FALSE]

\* The end of the closure: its locals go out of scope, the guard among
\* them, whatever the function returned.
end_of_call(locks, fr) == [locks EXCEPT ![fr.cell] = FALSE]

\* The native methods: `mul` registered with register_fn, which cannot
\* fail, and `div` registered with register_result_fn, which can.
Methods == { "mul", "div" }
Returns(fn) == IF fn = "div" THEN { "Ok", "Err" } ELSE { "Ok" }

\* Most native calls in a run.
MaxNativeCalls == 3

\* $par = by_ref(_drain.next().unwrap()): data.write_lock::<T>().unwrap()
Convert ==
    /\ frame.pc = "idle"
    /\ frame.n < MaxNativeCalls
    /\ \E c \in LockCells, fn \in Methods :
        \E w \in { write_lock(held, c) } :
          /\ held' = w.locks
          /\ frame' = [pc |-> IF w.is_some THEN "converted" ELSE "panicked",
                       n |-> frame.n + 1, cell |-> c, fn |-> fn, r |-> ""]
    /\ UNCHANGED <<accessed, calc, twin, lexVars, tableVars, moduleVars, closureVars, pointerVars,
                   iterVars, positionVars, packageVars, resolverVars>>

\* let r = $fn($($arg),*);
CallNative ==
    /\ frame.pc = "converted"
    /\ \E r \in Returns(frame.fn) : frame' = [frame EXCEPT !.pc = "called", !.r = r]
    /\ UNCHANGED <<held, accessed, calc, twin, lexVars, tableVars, moduleVars, closureVars,
                   pointerVars, iterVars, positionVars, packageVars, resolverVars>>

\* $map(r), and the end of the closure
EndCall ==
    /\ frame.pc = "called"
    /\ held' = end_of_call(held, frame)
    /\ frame' = [frame EXCEPT !.pc = "idle"]
    /\ UNCHANGED <<accessed, calc, twin, lexVars, tableVars, moduleVars, closureVars, pointerVars,
                   iterVars, positionVars, packageVars, resolverVars>>

\* An access to a shared value from elsewhere: it is refused when the
\* value is locked (Dynamic::is_locked, the data-race check).
Access ==
    /\ frame.pc # "panicked"
    /\ \E c \in LockCells :
          accessed' = [cell |-> c, ok |-> ~held[c],
                     during |-> frame.pc # "idle", after |-> frame.r]
    /\ UNCHANGED <<held, frame, calc, twin, lexVars, tableVars, moduleVars, closureVars,
                   pointerVars, iterVars, positionVars, packageVars, resolverVars>>

NextLock == Convert \/ CallNative \/ EndCall \/ Access

LockSpec == InitIdle /\ [][NextLock]_vars


-----------------------------------------------------------------------------
(* Engine::call_fn: the host calls a function of a compiled script by name  *)
(* with a tuple of arguments and its own Scope (tests/call_fn.rs).  The     *)
(* Scope is the variable `scope`, the compiled script `ast`, and the record *)
(* of the call `outcome`.                                                   *)

\* The functions of the script of test_call_fn.
HelloFns ==
    { [name |-> "hello", params |-> 2, body |-> "x + y"],
      [name |-> "hello", params |-> 1, body |-> "x *= foo; foo = 1; x"],
      [name |-> "hello", params |-> 0, body |-> "41 + foo"] }

\* Scope::set_value on a variable that exists.
set_value(sc, name, d) == [sc EXCEPT ![find(sc, Len(sc), name)].value = d]

\* The body of a function of the script evaluated on the arguments, with
\* the variables of the scope in reach.
eval_hello(f, sc, args) ==
    LET i == find(sc, Len(sc), "foo") IN
    CASE f.body = "x + y" ->
            [ error |-> "", result |-> Dynamic("INT", args[1].v + args[2].v), scope |-> sc ]
      [] i = 0 ->
            [ error |-> "ErrorVariableNotFound", result |-> Unit, scope |-> sc ]
      [] f.body = "x *= foo; foo = 1; x" ->
            [ error |-> "", result |-> Dynamic("INT", args[1].v * sc[i].value.v),
              scope |-> set_value(sc, "foo", Dynamic("INT", 1)) ]
      [] f.body = "41 + foo" ->
            [ error |-> "", result |-> Dynamic("INT", 41 + sc[i].value.v), scope |-> sc ]

\* A faulty call_fn that evaluates the function against a copy of the
\* scope; C33 tells it from call_fn.
call_fn_on_copy(sc, lib, name, args) ==
    LET fns == get_script_fn(lib, name, Len(args)) IN
    IF fns = {} THEN [ error |-> "ErrorFunctionNotFound", result |-> Unit, scope |-> sc ]
    ELSE [ eval_hello(CHOOSE f \in fns : TRUE, sc, args) EXCEPT !.scope = sc ]

\* engine.call_fn(&mut scope, &ast, name, args): the function of that name
\* and number of parameters, evaluated against the scope.
call_fn(sc, lib, name, args) ==
    LET fns == get_script_fn(lib, name, Len(args)) IN
    IF fns = {} THEN [ error |-> "ErrorFunctionNotFound", result |-> Unit, scope |-> sc ]
    ELSE eval_hello(CHOOSE f \in fns : TRUE, sc, args)

\* Most calls of call_fn in a run, and the values pushed and passed.
MaxCallFns == 3
HostValues == { 1, 42, 123 }

\* scope.push(name, value), before the script is compiled
ScopePush ==
    /\ ast = NoAst
    /\ Len(scope) < MaxScope
    /\ \E name \in { "foo", "bar" }, v \in HostValues :
        /\ find(scope, Len(scope), name) = 0
        /\ scope' = Append(scope, [name |-> name, value |-> Dynamic("INT", v)])
    /\ UNCHANGED <<cells, fnptr, called, pointerVars, lexVars, tableVars, moduleVars,
                   extraVars>>

\* let ast = engine.compile(script)
CompileHello ==
    /\ ast = NoAst
    /\ ast' = [statements |-> 0, functions |-> HelloFns]
    /\ UNCHANGED <<ptrs, outcome, lexVars, tableVars, moduleVars, closureVars, extraVars>>

\* engine.call_fn(&mut scope, &ast, name, args)
CallFn ==
    /\ ast # NoAst
    /\ outcome.n < MaxCallFns
    /\ \E name \in { "hello", "bye" }, args \in UNION { [1..n -> HostValues] : n \in 0..3 } :
        \E r \in { call_fn(scope, ast.functions, name,
                           [i \in 1..Len(args) |-> Dynamic("INT", args[i])]) } :
          /\ scope' = r.scope
          /\ outcome' = [ kind |-> "call_fn", n |-> outcome.n + 1, name |-> name,
                          args |-> args, before |-> scope, error |-> r.error,
                          result |-> r.result ]
    /\ UNCHANGED <<cells, fnptr, called, ast, ptrs, lexVars, tableVars, moduleVars,
                   extraVars>>

NextCallFn == ScopePush \/ CompileHello \/ CallFn

CallFnSpec == InitIdle /\ [][NextCallFn]_vars


-----------------------------------------------------------------------------
(* A second lexer, run beside the lexer of `stream`, `state` and `pos`:     *)
(* it reads its characters from a MultiInputsStream, a list of streams      *)
(* with the index of the current one (counted from 1).                      *)

NoChar == -1

\* A faulty get_next that stops at the end of the current stream; C35
\* tells it from get_next.
get_next_no_jump(ms) ==
    IF ms.index > Len(ms.streams) \/ ms.streams[ms.index] = <<>>
    THEN [ch |-> NoChar, ms |-> ms]
    ELSE [ch |-> Head(ms.streams[ms.index]),
          ms |-> [ms EXCEPT !.streams[ms.index] = Tail(@)]]

\* MultiInputsStream::get_next
RECURSIVE get_next(_)
get_next(ms) ==
    IF ms.index > Len(ms.streams)
    THEN [ch |-> NoChar, ms |-> ms]                       \* No more streams
    ELSE IF ms.streams[ms.index] # <<>>
    THEN [ch |-> Head(ms.streams[ms.index]),              \* Next character in current stream
          ms |-> [ms EXCEPT !.streams[ms.index] = Tail(@)]]
    ELSE get_next([ms EXCEPT !.index = @ + 1])            \* Jump to the next stream

\* MultiInputsStream::peek_next
RECURSIVE peek_next(_)
peek_next(ms) ==
    IF ms.index > Len(ms.streams)
    THEN [ch |-> NoChar, ms |-> ms]
    ELSE IF ms.streams[ms.index] # <<>>
    THEN [ch |-> Head(ms.streams[ms.index]), ms |-> ms]
    ELSE peek_next([ms EXCEPT !.index = @ + 1])

\* The characters the lexer is given by the stream: while peek_next shows
\* one, the one that get_next then returns.
RECURSIVE Remaining(_)
Remaining(ms) ==
    Bind(peek_next(ms), LAMBDA pk :
        IF pk.ch = NoChar THEN <<>>
        ELSE Bind(get_next(pk.ms), LAMBDA g : <<g.ch>> \o Remaining(g.ms)))

\* The stream after k calls of get_next.
RECURSIVE Taken(_, _)
Taken(ms, k) == IF k = 0 THEN ms ELSE Taken(get_next(ms).ms, k - 1)

\* get_next_token on a MultiInputsStream: the lexer reads the stream
\* through get_next and peek_next only; what it leaves is the stream after
\* as many get_next as characters it consumed and, when the call ended on a
\* look past them, after the jumps over exhausted streams which that look
\* made (at the end of the input a get_next makes the jumps of a peek_next).
get_next_token_multi(ms, st, p) ==
    Bind(Remaining(ms), LAMBDA s :
    Bind(get_next_token(s, st, p), LAMBDA r :
    Bind(Taken(ms, Len(s) - Len(r.stream)), LAMBDA got_ms :
        [ status |-> r.status, tok |-> r.tok, tpos |-> r.tpos, state |-> r.state,
          pos |-> r.pos,
          ms |-> IF r.ahead = 0 THEN got_ms ELSE peek_next(got_ms).ms ])))

\* The second lexer at the start of a session.
Twin(streams, st) ==
    [ streams |-> streams, index |-> 1, state |-> st, pos |-> Position_new(1, 0),
      began |-> 1, status |-> "NoCall", tok |-> NoToken, tpos |-> Position_none ]

\* One call of get_next_token by the second lexer.
twin_next(tw) ==
    Bind(get_next_token_multi([streams |-> tw.streams, index |-> tw.index],
                              tw.state, tw.pos), LAMBDA r :
        [ streams |-> r.ms.streams, index |-> r.ms.index, state |-> r.state, pos |-> r.pos,
          began |-> tw.index, status |-> r.status, tok |-> r.tok, tpos |-> r.tpos ])

\* The text of the split inputs, and the streams a text is split into:
\* every way of cutting it into MaxStreams streams, empty ones included.
MaxSplitLen == 4
MaxStreams == 3

SplitAlphabet == { CH.a, CH.dquote, CH.slash, CH.star }

SubText(t, lo, hi) == [i \in 1..(hi - lo) |-> t[lo + i]]

Splits(t) ==
    { [i \in 1..MaxStreams |->
          SubText(t, IF i = 1 THEN 0 ELSE cuts[i - 1],
                     IF i = MaxStreams THEN Len(t) ELSE cuts[i])] :
      cuts \in { c \in [1..(MaxStreams - 1) -> 0..Len(t)] :
                    \A i \in 1..(MaxStreams - 2) : c[i] <= c[i + 1] } }

\* lex(&[s1, s2, ...]) beside lex(&[s1 + s2 + ...])
InitSplit ==
    \E text \in Texts(SplitAlphabet, MaxSplitLen), inc \in BOOLEAN :
      \E streams \in Splits(text) :
        /\ TableIdle /\ ModuleIdle /\ ClosureIdle /\ PointerIdle
        /\ IterIdle /\ PositionIdle /\ PackageIdle /\ ResolverIdle
        /\ calc = NoCalc /\ LockIdle
        /\ stream = text
        /\ state = TokenizeState(0, FALSE, 0, FALSE, inc)
        /\ pos = Position_new(1, 0)
        /\ last = NoCall
        /\ prev = NoCall
        /\ eos = 0
        /\ panicked = FALSE
        /\ twin = Twin(streams, state)

\* One call of get_next_token by each of the two lexers.
LexBoth ==
    /\ last.status # "NoSession"
    /\ ~panicked
    /\ eos < MaxEos
    /\ \E r \in { get_next_token(stream, state, pos) } :
       LET call == [ status |-> r.status, tok |-> r.tok, tpos |-> r.tpos,
                     input |-> stream, state |-> state, pos |-> pos ]
       IN /\ stream' = r.stream
          /\ state' = r.state
          /\ pos' = r.pos
          /\ last' = call
          /\ prev' = last
          /\ eos' = IF IsEos(call) THEN eos + 1 ELSE eos
          /\ panicked' = (r.status = "Panic")
    /\ twin' = twin_next(twin)
    /\ UNCHANGED <<tableVars, moduleVars, closureVars, pointerVars, iterVars,
                   positionVars, packageVars, resolverVars, calc, lockVars>>

NextSplit == LexBoth

SplitSpec == InitSplit /\ [][NextSplit]_vars


(* Capturing comments: lex with include_comments = true beside the same     *)
(* text lexed with include_comments = false                                  *)

CommentedAlphabet == { CH.nl, CH.minus, CH.one, CH.slash, CH.star, CH.a }

\* Two sessions over one text: the first lexer captures comments, the
\* second one skips them.
InitCapture ==
    \E text \in Texts(CommentedAlphabet, MaxLen) :
        /\ TableIdle /\ ModuleIdle /\ ClosureIdle /\ PointerIdle
        /\ IterIdle /\ PositionIdle /\ PackageIdle /\ ResolverIdle
        /\ calc = NoCalc /\ LockIdle
        /\ stream = text
        /\ state = TokenizeState(0, FALSE, 0, FALSE, TRUE)
        /\ pos = Position_new(1, 0)
        /\ last = NoCall
        /\ prev = NoCall
        /\ eos = 0
        /\ panicked = FALSE
        /\ twin = Twin(<<text>>, TokenizeState(0, FALSE, 0, FALSE, FALSE))

\* One call of get_next_token by the capturing lexer; the skipping lexer
\* is called too unless the capturing one returned a Comment, so that the
\* two stand at the same place in their sequences of non-Comment tokens.
LexCapturing ==
    /\ last.status # "NoSession"
    /\ ~panicked
    /\ eos < MaxEos
    /\ \E r \in { get_next_token(stream, state, pos) } :
       LET call == [ status |-> r.status, tok |-> r.tok, tpos |-> r.tpos,
                     input |-> stream, state |-> state, pos |-> pos ]
       IN /\ stream' = r.stream
          /\ state' = r.state
          /\ pos' = r.pos
          /\ last' = call
          /\ prev' = last
          /\ eos' = IF IsEos(call) THEN eos + 1 ELSE eos
          /\ panicked' = (r.status = "Panic")
          /\ twin' = IF r.status = "Some" /\ r.tok.kind = "Comment"
                     THEN twin
                     ELSE twin_next(twin)
    /\ UNCHANGED <<tableVars, moduleVars, closureVars, pointerVars, iterVars,
                   positionVars, packageVars, resolverVars, calc, lockVars>>

NextCapture == LexCapturing

CaptureSpec == InitCapture /\ [][NextCapture]_vars

-----------------------------------------------------------------------------
(* The syntax table in use: Token::syntax and Token::lookup_from_syntax     *)

\* Texts looked up that are no token's syntax: reserved symbols and words,
\* the engine's function keywords and plain identifiers.
LookupTexts ==
    ReservedSyntax \cup KeywordSyntax
        \cup { <<>>, <<97>>, <<123, 69, 79, 70, 125>> }     \* "", "a", "{EOF}"

\* t.syntax() for a payload-free token t.
Syntax ==
    \E kind \in FixedKinds :
        /\ token' = Fixed(kind)
        /\ key' = syntax(kind)
        /\ found' = NoToken
        /\ UNCHANGED <<lexVars, moduleVars, closureVars, pointerVars, extraVars>>

\* A text that did not come from syntax() is presented for lookup.
Present ==
    \E s \in LookupTexts :
        /\ token' = NoToken
        /\ key' = s
        /\ found' = NoToken
        /\ UNCHANGED <<lexVars, moduleVars, closureVars, pointerVars, extraVars>>

\* Token::lookup_from_syntax(text); None is held as NoLookup.
NoLookup == Fixed("NoLookup")

LookupFromSyntax ==
    /\ found = NoToken
    /\ token # NoToken \/ key \in LookupTexts
    /\ LET r == lookup_from_syntax(key)
       IN found' = IF r = NoToken THEN NoLookup ELSE r
    /\ UNCHANGED <<token, key, lexVars, moduleVars, closureVars, pointerVars, extraVars>>

InitTable == LexerIdle /\ TableIdle /\ ModuleIdle /\ ClosureIdle /\ PointerIdle /\ ExtraIdle

NextTable == Syntax \/ Present \/ LookupFromSyntax

TableSpec == InitTable /\ [][NextTable]_vars

-----------------------------------------------------------------------------
(* Properties of the lexer *)

\* C1: every call of get_next_token returns - a (token, position) pair or
\* end-of-stream - whatever characters the input holds; a lexical error is a
\* Token::LexError with a position, and no call panics.
C1_EveryCallReturns ==
    /\ ~panicked
    /\ Called(last) =>
         /\ last.status \in {"Some", "None"}
         /\ (last.status = "Some" /\ last.tok.kind = "LexError") => ~is_none(last.tpos)

\* C2: whatever the input and the TokenizeState, repeated calls of
\* get_next_token eventually signal end-of-stream (Token::EOF or None).
C2_EventuallyEndOfStream == <>(eos > 0)

\* C3: a '-' immediately followed by a decimal digit is folded into one
\* negative IntegerConstant when it is the first token or follows a token
\* for which is_next_unary is true, and is lexed as Token::Minus followed by
\* a non-negative IntegerConstant when it follows any other token.
C3_MinusBeforeDigit ==
    /\ (MinusDigit(last) /\ UnaryPosition) =>
          /\ last.status = "Some"
          /\ last.tok.kind \notin {"Minus", "UnaryMinus"}
          /\ IsDecimalLiteral(NumberRun(AfterMinus(last))) =>
                /\ last.tok = IntegerConstant(0 - LiteralValue(NumberRun(AfterMinus(last))))
                /\ last.tok.int <= 0
                /\ stream = Skip(AfterMinus(last), Len(NumberRun(AfterMinus(last))))
    /\ (MinusDigit(last) /\ ~UnaryPosition) =>
          /\ last.status = "Some"
          /\ last.tok = Fixed("Minus")
          /\ stream = AfterMinus(last)
    /\ (MinusDigit(prev) /\ prev.tok = Fixed("Minus")
            /\ IsDecimalLiteral(NumberRun(AfterMinus(prev)))) =>
          /\ last.status = "Some"
          /\ last.tok = IntegerConstant(LiteralValue(NumberRun(AfterMinus(prev))))
          /\ last.tok.int >= 0

\* C3 happens: "-5" was folded into IntegerConstant(-5) in unary position,
\* and the "-5" after it was lexed as Minus.
C3_Witness ==
    /\ MinusDigit(prev) /\ prev.tok = IntegerConstant(-5)
    /\ MinusDigit(last) /\ last.tok = Fixed("Minus")
    /\ ~UnaryPosition

\* C4: a valid integer literal - decimal digits with '_' separators, or a
\* 0x, 0o or 0b prefix followed by digits of that radix - is lexed as the
\* IntegerConstant holding the value of its digits in its radix, and the
\* literal is consumed whole.
C4_IntegerLiteralValue ==
    LET t   == SkipBlank(last.input)
        run == NumberRun(t)
    IN (/\ Called(last)
        /\ last.state.comment_level = 0
        /\ IsDecimalLiteral(run) \/ IsRadixLiteral(run)) =>
          /\ last.status = "Some"
          /\ last.tok = IntegerConstant(LiteralValue(run))
          /\ stream = Skip(t, Len(run))

\* C4 happens: "0b101" was lexed as IntegerConstant(5).
C4_Witness ==
    /\ NumberRun(SkipBlank(last.input)) = <<48, 98, 49, 48, 49>>
    /\ last.tok = IntegerConstant(5)

\* The text after a block comment whose opening marker has been read, by
\* the depth counter: +1 at every "/*", -1 at every "*/", the comment ends
\* at the "*/" that brings the depth to zero.
RECURSIVE AfterComment(_, _)
AfterComment(s, depth) ==
    IF s = <<>> THEN [closed |-> FALSE, rest |-> <<>>]
    ELSE IF Len(s) >= 2 /\ s[1] = CH.slash /\ s[2] = CH.star
      THEN AfterComment(Skip(s, 2), depth + 1)
    ELSE IF Len(s) >= 2 /\ s[1] = CH.star /\ s[2] = CH.slash
      THEN IF depth = 1 THEN [closed |-> TRUE, rest |-> Skip(s, 2)]
           ELSE AfterComment(Skip(s, 2), depth - 1)
    ELSE AfterComment(Tail(s), depth)

\* C5: with comment capture off, a block comment is skipped up to exactly
\* the "*/" that returns the depth to zero, whatever '*' and '/' characters
\* it contains: the call gives the token that follows the comment, as if the
\* comment were not there, and the comment level is back to zero.
C5_BlockCommentSkipped ==
    LET t == SkipBlank(last.input)
        c == AfterComment(Skip(t, 2), 1)
        r == get_next_token(c.rest, last.state, last.pos)
    IN (/\ Called(last)
        /\ last.state.comment_level = 0
        /\ ~last.state.include_comments
        /\ Len(t) >= 2 /\ t[1] = CH.slash /\ t[2] = CH.star
        /\ c.closed) =>
          /\ last.status = r.status
          /\ last.tok = r.tok
          /\ stream = r.stream
          /\ state.comment_level = r.state.comment_level

\* The character an escape stands for, given the character after the
\* backslash, the hex digits that follow it and the enclosing quote; -1
\* when the escape is not a recognized one.
EscapeChar(e, hex, quote) ==
    IF e = CH.backslash THEN 92
    ELSE IF e = CH.t THEN 9
    ELSE IF e = CH.n THEN 10
    ELSE IF e = CH.r THEN 13
    ELSE IF e = quote THEN quote
    ELSE IF e \in {CH.x, CH.u, CH.U}
      THEN LET low == IF Len(hex) = 8 THEN Skip(hex, 2) ELSE hex
           IN IF /\ \A i \in 1..Len(hex) : DigitValue(hex[i]) < 16
                 /\ Len(hex) = 8 => (hex[1] = 48 /\ hex[2] = 48)
                 /\ from_u32_ok(Numeral(low, 16))
              THEN Numeral(low, 16)
              ELSE -1
    ELSE -1

\* The number of hex digits an escape takes.
EscapeDigits(e) == IF e = CH.x THEN 2 ELSE IF e = CH.u THEN 4 ELSE IF e = CH.U THEN 8 ELSE 0

\* A literal read from the text after its opening quote: whether it is a
\* terminated literal of recognized escapes only, its content with every
\* escape replaced, and the text after its closing quote.
RECURSIVE Literal(_, _)
Literal(s, quote) ==
    IF s = <<>> THEN [ok |-> FALSE, text |-> <<>>, rest |-> <<>>]
    ELSE IF s[1] = quote THEN [ok |-> TRUE, text |-> <<>>, rest |-> Tail(s)]
    ELSE IF s[1] = CH.backslash
      THEN IF Len(s) < 2 \/ Len(s) < 2 + EscapeDigits(s[2]) THEN [ok |-> FALSE, text |-> <<>>, rest |-> <<>>]
           ELSE LET k == EscapeDigits(s[2])
                    c == EscapeChar(s[2], SubSeq(s, 3, 2 + k), quote)
                    l == Literal(Skip(s, 2 + k), quote)
                IN [ok |-> c >= 0 /\ l.ok, text |-> <<c>> \o l.text, rest |-> l.rest]
    ELSE IF s[1] = CH.nl THEN [ok |-> FALSE, text |-> <<>>, rest |-> <<>>]
    ELSE LET l == Literal(Tail(s), quote)
         IN [ok |-> l.ok, text |-> <<s[1]>> \o l.text, rest |-> l.rest]

\* C6: a string literal whose escapes are all recognized is lexed as the
\* StringConstant holding its content with each escape replaced by the
\* character it stands for - a hex escape by the code point its digits
\* give - and every other character kept, in order.
C6_StringEscapesDecoded ==
    LET t == SkipBlank(last.input)
        l == Literal(Tail(t), CH.dquote)
    IN (/\ Called(last)
        /\ last.state.comment_level = 0
        /\ t # <<>> /\ t[1] = CH.dquote
        /\ l.ok
        /\ last.state.max_string_size = 0 \/ str_len(l.text) <= last.state.max_string_size) =>
          /\ last.status = "Some"
          /\ last.tok = StringConstant(l.text)
          /\ stream = l.rest

\* C6 happens: the literal "\x7f€" was lexed as the two characters
\* U+007F and U+20AC.
C6_Witness ==
    /\ last.input = <<34, 92, 120, 55, 102, 92, 117, 50, 48, 97, 67, 34>>
    /\ last.tok = StringConstant(<<127, 8364>>)

\* C7: for every payload-free Token variant t other than EOF,
\* lookup_from_syntax(t.syntax()) is Some(t).
C7_SyntaxRoundTrip ==
    (token # NoToken /\ token # EOF /\ found # NoToken) => found = token

\* The variants the parser makes from Plus and Minus: they share the
\* syntax of those tokens.
UnarySigns == { Fixed("UnaryPlus"), Fixed("UnaryMinus") }

\* C7, amended: for every payload-free Token variant t other than EOF,
\* UnaryPlus and UnaryMinus, lookup_from_syntax(t.syntax()) is Some(t);
\* for UnaryPlus it is Some(Plus) and for UnaryMinus Some(Minus).
C7_SyntaxRoundTripButUnary ==
    (token # NoToken /\ token # EOF /\ found # NoToken) =>
        /\ token \notin UnarySigns => found = token
        /\ token = Fixed("UnaryPlus") => found = Fixed("Plus")
        /\ token = Fixed("UnaryMinus") => found = Fixed("Minus")

\* C7 happens: the syntax of LeftShiftAssign was looked up and gave
\* LeftShiftAssign back.
C7_Witness ==
    /\ token = Fixed("LeftShiftAssign")
    /\ key = <<60, 60, 61>>
    /\ found = token

-----------------------------------------------------------------------------
(* Properties of the function table *)

\* One argument value of each type of the list.
ArgsOf(sig) == [i \in 1..Len(sig) |-> Dynamic(sig[i], i)]

\* The callable of the latest of the first n registrations under the name
\* and the argument type list; NoCallable when there is none.
RECURSIVE Latest(_, _, _, _)
Latest(l, n, name, params) ==
    IF n = 0 THEN NoCallable
    ELSE IF l[n].name = name /\ l[n].params = params THEN l[n].func
    ELSE Latest(l, n - 1, name, params)

\* C8: a registration under a (name, argument type list) key leaves every
\* entry of a different key as it was: get_fn of every other key gives the
\* same callable as before, and a call of it the same result.
C8_RegistrationFrame ==
    [][ Len(log') = Len(log) + 1 =>
          LET e == log'[Len(log')]
          IN \A name \in FnNames, sig \in Signatures :
                (name # e.name \/ sig # e.params) =>
                    /\ get_fn(functions', name, sig) = get_fn(functions, name, sig)
                    /\ call_native(functions', name, ArgsOf(sig))
                          = call_native(functions, name, ArgsOf(sig)) ]_vars

\* C8 happens: add(INT, INT) and add(FLOAT, FLOAT) were registered, then a
\* third signature of add, and add(1, 2) and add(1.0, 2.0) still give 3 and
\* 3.0.
C8_Witness ==
    /\ Len(log) = 3
    /\ log[1].name = "add" /\ log[1].func.fn = "add_int"
    /\ log[2].name = "add" /\ log[2].func.fn = "add_float"
    /\ log[3].name = "add" /\ log[3].params = <<"ImmutableString">>
    /\ call_native(functions, "add", <<Dynamic("INT", 1), Dynamic("INT", 2)>>).ret
          = Dynamic("INT", 3)
    /\ call_native(functions, "add", <<Dynamic("FLOAT", 1), Dynamic("FLOAT", 2)>>).ret
          = Dynamic("FLOAT", 3)

\* C9: get_fn(name, signature) gives the callable most recently registered
\* under exactly that name and argument type list, and not-found when
\* there is no registration under exactly that key.
C9_GetFnLatestExact ==
    /\ \A name \in FnNames, sig \in Signatures :
          get_fn(functions, name, sig) = Latest(log, Len(log), name, sig)
    /\ got.asked =>
          /\ got.func = Latest(log, Len(log), got.name, got.params)
          /\ got.func = NoCallable
                <=> ~\E i \in 1..Len(log) :
                        log[i].name = got.name /\ log[i].params = got.params

\* C9 happens: a key was registered twice and get_fn gave the later
\* callable; another query of the same name with other types found nothing.
C9_Witness ==
    /\ Len(log) = 2
    /\ log[1].name = "add" /\ log[1].func.fn = "add_int"
    /\ log[2].name = "add" /\ log[2].func.fn = "mul"
    /\ got.asked /\ got.name = "add" /\ got.params = <<"INT", "INT">>
    /\ got.func.fn = "mul"
    /\ get_fn(functions, "add", <<"INT">>) = NoCallable

-----------------------------------------------------------------------------
(* Properties of closures *)

\* C10: a variable captured by a closure whose body mutates it is shared
\* in the enclosing scope from the creation of the closure on, and after a
\* call of the closure the enclosing scope's binding holds the value the
\* closure wrote: the old value plus the argument for `+=`, the argument
\* for `=`.
C10_CaptureAliases ==
    /\ (fnptr.made /\ fnptr.op \in Mutating) =>
          is_shared(scope[find(scope, Len(scope), fnptr.var)].value)
    /\ (called.n > 0 /\ called.op = "+=") =>
          read(scope, cells, called.var) = Dynamic("INT", called.before.v + called.arg)
    /\ (called.n > 0 /\ called.op = "=") =>
          read(scope, cells, called.var) = Dynamic("INT", called.arg)

\* C10 happens: a was 41, foo = |x| { a += x } was called with 1, and a is
\* shared and 42.
C10_Witness ==
    /\ fnptr.made /\ fnptr.op = "+=" /\ fnptr.var = "a"
    /\ called.n = 1 /\ called.arg = 1 /\ called.before = Dynamic("INT", 41)
    /\ is_shared(scope[find(scope, Len(scope), "a")].value)
    /\ read(scope, cells, "a") = Dynamic("INT", 42)

-----------------------------------------------------------------------------
(* Properties of method-style calls of closures *)

\* C11: a call of a closure with the variable it captures as the `this`
\* receiver returns ErrorDataRace and no value, and writes nothing; with a
\* receiver the closure does not capture the call succeeds and, for the
\* body `this += a + x`, the receiver holds its old value plus a plus x;
\* a call that passes a variable, captured or not, as an ordinary argument
\* succeeds, and for the body `a += x` a holds its old value plus the value
\* passed.
C11_DataRaceOnCapturedReceiver ==
    /\ (outcome.kind = "method" /\ outcome.recv = fnptr.var) =>
          /\ outcome.error = "ErrorDataRace"
          /\ outcome.result = NoValue
          /\ read(scope, cells, outcome.recv) = outcome.before
    /\ (outcome.kind = "method" /\ outcome.recv # fnptr.var) =>
          /\ outcome.error = ""
          /\ outcome.result # NoValue
          /\ fnptr.op = "this+=" =>
                read(scope, cells, outcome.recv) =
                    Dynamic("INT", outcome.before.v + outcome.captured.v + outcome.arg)
    /\ outcome.kind = "call" =>
          /\ outcome.error = ""
          /\ outcome.result # NoValue
          /\ fnptr.op = "+=" =>
                read(scope, cells, fnptr.var) =
                    Dynamic("INT", outcome.before.v + outcome.arg.v)

\* C11 happens: foo = |x| { this += a + x } captures a, and a.call(foo, 1)
\* was a data race that left a as it was.
C11_Witness ==
    /\ fnptr.made /\ fnptr.op = "this+=" /\ fnptr.var = "a"
    /\ outcome.kind = "method" /\ outcome.recv = "a" /\ outcome.arg = 1
    /\ outcome.error = "ErrorDataRace"
    /\ read(scope, cells, "a") = Dynamic("INT", 21)

-----------------------------------------------------------------------------
(* Properties of function pointers *)

\* C12: a call of an FnPtr binds the parameters of the function, in order,
\* to the curried values in the order they were curried and then to the
\* arguments of the call in the order they were passed: the function
\* `sub` of (x, y) returns x - y for x, y the first two of those values.
\* It is so for `.call` in the script and for call_dynamic, with the
\* statements of the script kept or discarded.
C12_CurriedThenCallArgs ==
    outcome.kind = "call" =>
        LET all == outcome.ptr.curry \o outcome.args
        IN /\ outcome.bound = all
           /\ (outcome.ptr.name = "sub" /\ Len(all) = 2) =>
                 /\ outcome.error = ""
                 /\ outcome.result = Dynamic("INT", all[1].v - all[2].v)

\* C12 happens: after retain_functions, the pointer to `sub` with 1 curried
\* was called through call_dynamic with the argument 2, and 1 - 2 came back.
C12_Witness ==
    /\ outcome.kind = "call" /\ outcome.via = "call_dynamic"
    /\ outcome.statements = 0
    /\ outcome.ptr = FnPtr("sub", << Dynamic("INT", 1) >>)
    /\ outcome.args = << Dynamic("INT", 2) >>
    /\ outcome.result = Dynamic("INT", 0 - 1)

\* C13: a curry step adds to the pointers held one that names the same
\* function and whose curried list is the list of the pointer curried
\* followed by the new values in order; the pointers held before, the
\* curried one among them, are as they were; and currying the result with
\* one more value b is the same pointer, and calls the same, as currying
\* the original with the new values and b at once.
C13_CurryAppends ==
    [][ (Len(ptrs) > 0 /\ Len(ptrs') = Len(ptrs) + 1) =>
            LET p == ptrs[outcome'.of]
                q == ptrs'[Len(ptrs')]
                vals == outcome'.vals
            IN /\ q.name = p.name
               /\ q.curry = p.curry \o vals
               /\ \A j \in 1..Len(ptrs) : ptrs'[j] = ptrs[j]
               /\ \A b \in ArgValues :
                     /\ curry(q, << b >>) = curry(p, vals \o << b >>)
                     /\ \A args \in ArgLists(0, 1) :
                           call_dynamic(ast.functions, functions, curry(q, << b >>),
                                        NoValue, args)
                             = call_dynamic(ast.functions, functions,
                                            curry(p, vals \o << b >>), NoValue, args) ]_vars

\* C13 happens: p = Fn("sub"), p.curry(1) and p.curry(1).curry(2) are held,
\* the last made by currying the second.
C13_Witness ==
    /\ Len(ptrs) = 3
    /\ outcome.kind = "curry" /\ outcome.of = 2 /\ outcome.vals = << Dynamic("INT", 2) >>
    /\ ptrs[1] = FnPtr("sub", <<>>)
    /\ ptrs[2] = FnPtr("sub", << Dynamic("INT", 1) >>)
    /\ ptrs[3] = FnPtr("sub", << Dynamic("INT", 1), Dynamic("INT", 2) >>)

\* The index of the variable `name` in the scope sc.
IndexOf(sc, name) == CHOOSE j \in 1..Len(sc) : sc[j].name = name

\* C14: after a call made with a variable of the caller as `this` that
\* returned without error, the variable holds the value the function left
\* in `this`: the old value plus the bound values for the script functions
\* `this += x` and `this += x + y`, the old value times the argument for
\* the native mul(x: &mut INT, y: INT); the other variables of the caller,
\* the one whose value was passed among them, hold what they held.
C14_MutableFirstArgument ==
    (outcome.kind = "call" /\ outcome.this # "") =>
        LET x == IndexOf(scope, outcome.this)
            old == outcome.before[x].value
            b == outcome.bound
        IN /\ \A j \in 1..Len(outcome.before) : j # x => scope[j] = outcome.before[j]
           /\ outcome.error # "" => scope[x] = outcome.before[x]
           /\ (outcome.error = "" /\ outcome.ptr.name = "foo") =>
                 scope[x].value = Dynamic("INT", old.v + b[1].v)
           /\ (outcome.error = "" /\ outcome.ptr.name = "foo2") =>
                 scope[x].value = Dynamic("INT", old.v + b[1].v + b[2].v)
           /\ (outcome.error = "" /\ outcome.ptr.name = "mul") =>
                 scope[x].value = Dynamic("INT", old.v * b[1].v)
           /\ (outcome.ptr.name = "mul" /\ Len(b) = 1) => outcome.error = ""
           /\ (outcome.ptr.name = "foo" /\ Len(b) = 1) => outcome.error = ""

\* C14 happens: x was 21, x.bar(Fn("mul"), 2) was called and x is 42.
C14_Witness ==
    /\ outcome.kind = "call" /\ outcome.this = "x"
    /\ outcome.ptr = FnPtr("mul", <<>>)
    /\ outcome.args = << Dynamic("INT", 2) >>
    /\ outcome.before[1].value = Dynamic("INT", 21)
    /\ outcome.error = ""
    /\ scope[1].value = Dynamic("INT", 42)

-----------------------------------------------------------------------------
(* Properties of numeric literals after a sign and a radix prefix *)

\* C15: in unary-allowed position, a '-' immediately followed by a valid
\* integer literal that starts with a digit - decimal, or prefixed with
\* 0x, 0o or 0b - is lexed as the one IntegerConstant holding the negated
\* value of the literal, and the sign and the literal are consumed.
C15_MinusFoldedIntoAnyLiteral ==
    LET run == NumberRun(AfterMinus(last))
    IN (/\ MinusDigit(last)
        /\ UnaryPosition
        /\ IsDecimalLiteral(run) \/ IsRadixLiteral(run)) =>
          /\ last.status = "Some"
          /\ last.tok = IntegerConstant(0 - LiteralValue(run))
          /\ stream = Skip(AfterMinus(last), Len(run))

\* The digits of the radix at the start of a text.
RECURSIVE RadixDigits(_, _)
RadixDigits(s, radix) ==
    IF s # <<>> /\ DigitValue(Head(s)) < radix
    THEN << Head(s) >> \o RadixDigits(Tail(s), radix)
    ELSE <<>>

\* C16: a literal that starts with a 0x, 0o or 0b prefix ends before the
\* first character that is not a digit of its radix: that character is the
\* next to be read, the digits before it are lexed as the IntegerConstant
\* they write in the radix, and with no digit after the prefix the token
\* is LexError MalformedNumber.
C16_RadixLiteralEndsAtInvalidDigit ==
    LET t == SkipBlank(last.input)
        radix == PrefixRadix(t)
        digits == RadixDigits(Skip(t, 2), radix)
    IN (/\ Called(last)
        /\ last.state.comment_level = 0
        /\ radix # 0
        /\ Len(digits) <= MaxDigits) =>
          /\ last.status = "Some"
          /\ stream = Skip(t, 2 + Len(digits))
          /\ digits = <<>> => (last.tok.kind = "LexError" /\ last.tok.err = "MalformedNumber")
          /\ digits # <<>> => last.tok = IntegerConstant(Numeral(digits, radix))

-----------------------------------------------------------------------------
(* Properties of string and char literals that do not end well *)

\* w with the character c, written in k characters, put before it.
Prepend(c, k, w) == [w EXCEPT !.text = << c >> \o @, !.n = @ + k]

\* The text after the opening quote read up to what ends the literal: the
\* closing quote ("closed"), an escape that is not a recognized one
\* ("escape", with the backslash and the character after it), a hex escape
\* with a bad digit or code point ("hex") or cut short by the end of the
\* input ("hex-eof"), a raw newline ("newline"), or the end of the input
\* elsewhere ("eof"); with the content decoded up to there and the number
\* of characters read, the ending one included.
RECURSIVE Walk(_, _)
Walk(s, quote) ==
    IF s = <<>> THEN [how |-> "eof", text |-> <<>>, n |-> 0, bad |-> <<>>]
    ELSE IF s[1] = quote THEN [how |-> "closed", text |-> <<>>, n |-> 1, bad |-> <<>>]
    ELSE IF s[1] = CH.backslash
      THEN IF Len(s) = 1 THEN [how |-> "eof", text |-> <<>>, n |-> 1, bad |-> <<>>]
           ELSE LET e == s[2]
                    k == EscapeDigits(e)
                    hex == SubSeq(s, 3, IF Len(s) < 2 + k THEN Len(s) ELSE 2 + k)
                IN IF k > 0 /\ \E i \in 1..Len(hex) : DigitValue(hex[i]) >= 16
                     THEN [how |-> "hex", text |-> <<>>, n |-> 2, bad |-> <<>>]
                   ELSE IF Len(hex) < k
                     THEN [how |-> "hex-eof", text |-> <<>>, n |-> 2 + Len(hex), bad |-> <<>>]
                   ELSE IF EscapeChar(e, hex, quote) >= 0
                     THEN Prepend(EscapeChar(e, hex, quote), 2 + k, Walk(Skip(s, 2 + k), quote))
                   ELSE IF k > 0
                     THEN [how |-> "hex", text |-> <<>>, n |-> 2 + k, bad |-> <<>>]
                   ELSE [how |-> "escape", text |-> <<>>, n |-> 2, bad |-> << CH.backslash, e >>]
    ELSE IF s[1] = CH.nl THEN [how |-> "newline", text |-> <<>>, n |-> 1, bad |-> <<>>]
    ELSE Prepend(s[1], 1, Walk(Tail(s), quote))

\* The call met a string or char literal: the text from its opening quote.
LiteralText(call) == SkipBlank(call.input)

IsLiteral(call) ==
    /\ Called(call)
    /\ call.state.comment_level = 0
    /\ LiteralText(call) # <<>>
    /\ LiteralText(call)[1] \in { CH.dquote, CH.squote }
    /\ LiteralText(call)[1] = CH.squote =>
          (Len(LiteralText(call)) < 2 \/ LiteralText(call)[2] # CH.squote)

\* What ends the literal of the call.
LiteralEnd(call) == Walk(Tail(LiteralText(call)), LiteralText(call)[1])

\* The number of bytes of the UTF-8 encoding of a text.
RECURSIVE Utf8Len(_)
Utf8Len(text) ==
    IF text = <<>> THEN 0
    ELSE Utf8Len(Tail(text))
         + (IF Head(text) < 128 THEN 1 ELSE IF Head(text) < 2048 THEN 2
            ELSE IF Head(text) < 65536 THEN 3 ELSE 4)

\* The content read before the literal ends is within the length limit.
WithinLimit(call) ==
    \/ call.state.max_string_size = 0
    \/ Utf8Len(LiteralEnd(call).text) <= call.state.max_string_size

\* C17: a backslash followed by a character that is no recognized escape,
\* in a string or char literal, is lexed as LexError
\* MalformedEscapeSequence holding the backslash and that character.
C17_BadEscapeCarriesSequence ==
    (IsLiteral(last) /\ LiteralEnd(last).how = "escape" /\ WithinLimit(last)) =>
        /\ last.status = "Some"
        /\ last.tok = LexError("MalformedEscapeSequence", LiteralEnd(last).bad)

\* The position after the text s is read from the position p.
RECURSIVE PosOver(_, _)
PosOver(p, s) ==
    IF s = <<>> THEN p
    ELSE PosOver(IF Head(s) = CH.nl THEN new_line(p) ELSE advance(p), Tail(s))

\* The position held when the character that ends the literal of the call
\* is about to be read.
PosBeforeEnd(call) ==
    PosOver(call.pos,
            SubSeq(call.input, 1,
                   Len(call.input) - Len(LiteralText(call)) + LiteralEnd(call).n))

C19_StringTooLong ==
    LET M == last.state.max_string_size
        w == LiteralEnd(last)
    IN (IsLiteral(last) /\ LiteralText(last)[1] = CH.dquote /\ w.how = "closed") =>
          /\ last.status = "Some"
          /\ (M > 0 /\ Utf8Len(w.text) > M) => last.tok = StringTooLong(M)
          /\ (M > 0 /\ Utf8Len(w.text) <= M) => last.tok = StringConstant(w.text)
          /\ M = 0 => last.tok = StringConstant(w.text)

\* C19 happens: with the limit 2, the terminated literal "aé", of two
\* characters and three bytes, was lexed as StringTooLong(2).
C19_Witness ==
    /\ last.state.max_string_size = MaxStr
    /\ last.input = <<34, 97, 92, 117, 48, 48, 69, 57, 34>>
    /\ last.tok = StringTooLong(MaxStr)

-----------------------------------------------------------------------------
(* C21: the float fallback of decimal literals *)

\* The longest prefix of digits, '_' and '.'.
RECURSIVE DecimalRun(_)
DecimalRun(s) ==
    IF s # <<>> /\ (IsDigit(Head(s)) \/ Head(s) \in {CH.underscore, CH.period})
    THEN <<Head(s)>> \o DecimalRun(Tail(s))
    ELSE <<>>

\* The call meets a '-' that is folded into the literal after it.
FoldedMinus(call) == MinusDigit(call) /\ ~call.state.non_unary

\* The call meets a decimal literal with no radix prefix: a digit, or a
\* folded '-' and a digit, and no radix letter ends the run of a literal
\* that starts with '0'.
IsDecimalCall(call) ==
    LET t == SkipBlank(call.input)
        d == IF FoldedMinus(call) THEN Tail(t) ELSE t
        after == Skip(d, Len(DecimalRun(d)))
    IN /\ Called(call)
       /\ call.state.comment_level = 0
       /\ d # <<>> /\ IsDigit(d[1])
       /\ ~(d[1] = CH.zero /\ after # <<>> /\ radix_of(after[1]) # 0)

\* The literal as written, with the '-' folded into it.
DecimalWritten(call) ==
    LET t == SkipBlank(call.input) IN
    IF FoldedMinus(call) THEN <<CH.minus>> \o DecimalRun(Tail(t)) ELSE DecimalRun(t)

\* a <= b for texts of digits of the same length.
RECURSIVE TextLeq(_, _)
TextLeq(a, b) ==
    IF a = <<>> THEN TRUE
    ELSE IF a[1] # b[1] THEN a[1] < b[1]
    ELSE TextLeq(Tail(a), Tail(b))

RECURSIVE WithoutLeadingZeros(_)
WithoutLeadingZeros(w) ==
    IF w # <<>> /\ w[1] = CH.zero THEN WithoutLeadingZeros(Tail(w)) ELSE w

\* The written literal is an integer of the INT range (i64).
ConvertsToInt(w) ==
    LET negative == w[1] = CH.minus
        m == WithoutLeadingZeros(SelectSeq(w, LAMBDA c : IsDigit(c)))
        limit == IF negative
                 THEN <<57,50,50,51,51,55,50,48,51,54,56,53,52,55,55,53,56,48,56>>
                 ELSE <<57,50,50,51,51,55,50,48,51,54,56,53,52,55,55,53,56,48,55>>
    IN /\ \A i \in 1..Len(w) : w[i] # CH.period
       /\ \/ Len(m) < Len(limit)
          \/ Len(m) = Len(limit) /\ TextLeq(m, limit)

\* The written literal is a float: it has at most one decimal point.
ConvertsToFloat(w) ==
    Cardinality({ i \in 1..Len(w) : w[i] = CH.period }) <= 1

\* C21: a decimal literal (no radix prefix) that does not convert to INT,
\* because it has a decimal point or lies outside the INT range, yields
\* FloatConstant of its text without the separators; only when the float
\* conversion fails too is the token LexError MalformedNumber, and it
\* carries the literal as written, separators included.
C21_FloatFallback ==
    IsDecimalCall(last) =>
        LET w == DecimalWritten(last) IN
        /\ last.status = "Some"
        /\ (last.tok.kind = "LexError") = (~ConvertsToInt(w) /\ ~ConvertsToFloat(w))
        /\ ~ConvertsToInt(w) /\ ConvertsToFloat(w) =>
              last.tok = FloatConstant(SelectSeq(w, LAMBDA c : c # CH.underscore))
        /\ ~ConvertsToInt(w) /\ ~ConvertsToFloat(w) =>
              last.tok = LexError("MalformedNumber", w)

\* "1_.2_.3" was lexed: neither conversion succeeds, and the error carries
\* the text with its separators.
C21_Witness ==
    /\ IsDecimalCall(last)
    /\ last.input = <<49, 95, 46, 50, 95, 46, 51>>
    /\ last.tok = LexError("MalformedNumber", <<49, 95, 46, 50, 95, 46, 51>>)

-----------------------------------------------------------------------------
(* C22, C23: the token iterator *)

\* The call of get_next_token met an entry of the reserved table.
ReservedEntry(call) ==
    /\ call.status = "Some"
    /\ call.tok.kind = "Reserved"
    /\ call.tok.text \in ReservedSyntax \cup KeywordSyntax

\* A text of letters and '_': a word, not a symbol.
IsWordText(s) ==
    s # <<>> /\ \A i \in 1..Len(s) : is_ascii_alphabetic(s[i]) \/ s[i] = CH.underscore

\* C22 as stated: for every entry of the reserved table, symbol or
\* reserved word, the iterator yields a LexError when the entry is not a
\* registered custom keyword, and Custom carrying its text when it is.
C22_ReservedErrorOrCustom ==
    ReservedEntry(last) =>
        IF contains(engine.custom_keywords, last.tok.text)
        THEN item.tok = Custom(last.tok.text)
        ELSE item.tok.kind = "LexError"

\* C22 amended: an entry of the reserved table that is a registered custom
\* keyword yields Custom carrying its text; one that is not registered
\* yields LexError ImproperSymbol when it is a symbol, and when it is a
\* reserved word it stays Reserved carrying the word, unless the word is
\* disabled, which yields LexError ImproperSymbol.
C22_ReservedSymbolErrorWordKept ==
    ReservedEntry(last) =>
        LET s == last.tok.text IN
        /\ item.status = "Some"
        /\ item.tpos = last.tpos
        /\ IF contains(engine.custom_keywords, s)
             THEN item.tok = Custom(s)
           ELSE IF ~IsWordText(s) \/ contains(engine.disabled_symbols, s)
             THEN item.tok.kind = "LexError" /\ item.tok.err = "ImproperSymbol"
           ELSE item.tok = Reserved(s)

\* The reserved word `new`, neither custom nor disabled, came out of the
\* iterator as Reserved("new").
C22_Witness ==
    /\ ReservedEntry(last)
    /\ last.input = <<110, 101, 119>>
    /\ ~contains(engine.custom_keywords, <<110, 101, 119>>)
    /\ item.tok = Reserved(<<110, 101, 119>>)

\* The call of get_next_token gave a standard operator or keyword token
\* whose syntax is in the engine's disabled set.
DisabledStandard(call) ==
    /\ call.status = "Some"
    /\ call.tok.kind \in FixedKinds \ {"EOF"}
    /\ contains(engine.disabled_symbols, syntax(call.tok.kind))

\* C23: for a symbol in the disabled set, the iterator replaces a standard
\* operator token by LexError UnexpectedInput carrying its syntax, and a
\* standard keyword token by Custom when the keyword is also a registered
\* custom keyword and by Reserved when it is not.
C23_DisabledSymbols ==
    DisabledStandard(last) =>
        LET sx == syntax(last.tok.kind) IN
        /\ item.status = "Some"
        /\ item.tpos = last.tpos
        /\ IF ~IsWordText(sx) THEN item.tok = LexError("UnexpectedInput", sx)
           ELSE IF contains(engine.custom_keywords, sx) THEN item.tok = Custom(sx)
           ELSE item.tok = Reserved(sx)

\* `let`, disabled and registered as a custom keyword, came out of the
\* iterator as Custom("let").
C23_Witness ==
    /\ DisabledStandard(last)
    /\ last.tok = Fixed("Let")
    /\ contains(engine.custom_keywords, <<108, 101, 116>>)
    /\ item.tok = Custom(<<108, 101, 116>>)

-----------------------------------------------------------------------------
(* C24: identifiers *)

\* The longest prefix of ASCII letters, digits and '_'.
RECURSIVE IdentRun(_)
IdentRun(s) ==
    IF s # <<>> /\ (is_ascii_alphanumeric(Head(s)) \/ Head(s) = CH.underscore)
    THEN <<Head(s)>> \o IdentRun(Tail(s))
    ELSE <<>>

\* Zero or more underscores, then an ASCII letter, then any number of
\* ASCII letters, digits and underscores.
IdentifierShape(t) ==
    \E k \in 1..Len(t) :
        /\ \A i \in 1..(k - 1) : t[i] = CH.underscore
        /\ is_ascii_alphabetic(t[k])
        /\ \A i \in (k + 1)..Len(t) : is_ascii_alphanumeric(t[i]) \/ t[i] = CH.underscore

\* The call meets a run of identifier characters that starts with a
\* letter or '_' (a run that starts with a digit is a number).
IsIdentCall(call) ==
    LET t == SkipBlank(call.input) IN
    /\ Called(call)
    /\ call.state.comment_level = 0
    /\ t # <<>> /\ (is_ascii_alphabetic(t[1]) \/ t[1] = CH.underscore)

\* C24: is_valid_identifier accepts exactly the texts of the identifier
\* shape (checked on every input text and every run); a maximal run of
\* identifier characters that is not of the shape is lexed as LexError
\* MalformedIdentifier carrying the run, and one that is as the token
\* lookup_from_syntax finds for it, or else as Identifier of the run.
C24_Identifiers ==
    /\ Called(last) => (is_valid_identifier(last.input) <=> IdentifierShape(last.input))
    /\ IsIdentCall(last) =>
          LET run == IdentRun(SkipBlank(last.input)) IN
          /\ is_valid_identifier(run) <=> IdentifierShape(run)
          /\ last.status = "Some"
          /\ last.tok = IF ~IdentifierShape(run) THEN LexError("MalformedIdentifier", run)
                        ELSE IF lookup_from_syntax(run) # NoToken THEN lookup_from_syntax(run)
                        ELSE Identifier(run)

\* The run "_1" was lexed as MalformedIdentifier("_1").
C24_Witness ==
    /\ IsIdentCall(last)
    /\ IdentRun(SkipBlank(last.input)) = <<95, 49>>
    /\ last.tok = LexError("MalformedIdentifier", <<95, 49>>)

-----------------------------------------------------------------------------
(* C25, C26: positions *)

\* A Position value has been created.
Created == moved.op # "none" /\ ~(moved.op = "new" /\ moved.panicked)

\* C25 as stated: every Position value reachable through new, default,
\* none, advance, new_line and rewind has line = 0 if and only if it has
\* column = 0.
C25_LineZeroIffColumnZero ==
    Created => (cursor.line = 0 <=> cursor.pos = 0)

\* C25 amended: every Position value reachable through new, default, none,
\* advance, new_line and rewind that has line = 0 has column = 0 (it is
\* the none sentinel, which is never moved); a value with column 0 may
\* have any line.
C25_LineZeroOnlyNone ==
    Created =>
        /\ cursor.line = 0 => cursor.pos = 0
        /\ is_none(cursor) => moved.op = "none()" \/ moved.panicked

\* new_line moved a position to column 0 of a line that is not 0.
C25_Witness ==
    /\ Created
    /\ moved.op = "new_line" /\ ~moved.panicked
    /\ cursor.pos = 0 /\ cursor.line = 2

\* The latest operation was advance, new_line or rewind on a position
\* that is not none.
MovedFromPosition ==
    moved.op \in {"advance", "new_line", "rewind"} /\ ~is_none(moved.from)

\* C26: advance, new_line and rewind applied to a position that is not
\* none keep the line within 1..65535 and the column within 0..65535;
\* advance at column 65535 and new_line at line 65535 leave the position
\* as it is, without wrapping and without failing, and below those they
\* add one (new_line resets the column to 0); rewind subtracts one from a
\* column above 0 and never takes the column below 0 (at column 0 its
\* assertion fails and the position is left as it is).
C26_Saturating ==
    MovedFromPosition =>
        /\ cursor.line \in 1..65535 /\ cursor.pos \in 0..65535
        /\ moved.op = "advance" =>
              /\ ~moved.panicked
              /\ cursor.line = moved.from.line
              /\ cursor.pos = IF moved.from.pos = 65535 THEN 65535 ELSE moved.from.pos + 1
        /\ moved.op = "new_line" =>
              /\ ~moved.panicked
              /\ cursor = IF moved.from.line = 65535 THEN moved.from
                          ELSE [line |-> moved.from.line + 1, pos |-> 0]
        /\ moved.op = "rewind" =>
              /\ cursor.line = moved.from.line
              /\ cursor.pos = IF moved.from.pos = 0 THEN 0 ELSE moved.from.pos - 1
              /\ moved.panicked <=> moved.from.pos = 0

\* advance at column 65535 left the position where it was.
C26_Witness ==
    /\ MovedFromPosition
    /\ moved.op = "advance" /\ ~moved.panicked
    /\ moved.from.pos = 65535 /\ cursor = moved.from

-----------------------------------------------------------------------------
(* C27: end of stream *)

\* C27: a call of get_next_token made when the input is exhausted signals
\* end-of-stream as end_with_none says - None when the flag is set,
\* Some(EOF) when it is not - and gives no other token, on the first such
\* call and on every later one.
C27_EndOfStreamOnceExhausted ==
    Called(last) /\ last.input = <<>> =>
        IF last.state.end_with_none
        THEN last.status = "None"
        ELSE last.status = "Some" /\ last.tok = EOF

-----------------------------------------------------------------------------
(* C28: combining modules *)

\* The modules combined so far that hold the key in the table t
\* ("functions" or "variables"), by their place in the order.
Holders(t, k) == { i \in 1..Len(combined.parts) : k \in DOMAIN combined.parts[i][t] }

\* No two of the modules combined hold the same key.
NonColliding ==
    \A t \in {"functions", "variables"} :
    \A i \in 1..Len(combined.parts), j \in 1..Len(combined.parts) :
        i # j => DOMAIN combined.parts[i][t] \cap DOMAIN combined.parts[j][t] = {}

\* The keys of all the modules combined.
AllKeys(t) == UNION { DOMAIN combined.parts[i][t] : i \in 1..Len(combined.parts) }

\* C28: the combined module holds the keys of all the modules combined,
\* functions and constants; when no two of them hold the same key, each
\* entry is that of the one module holding its key, whatever the order
\* and the grouping of the combinations; when several hold the key, the
\* entry is that of the module combined last among them.
C28_CombineMerges ==
    \A t \in {"functions", "variables"} :
        /\ DOMAIN package[t] = AllKeys(t)
        /\ \A k \in AllKeys(t) :
              /\ NonColliding =>
                    \A i \in Holders(t, k) : package[t][k] = combined.parts[i][t][k]
              /\ \E i \in Holders(t, k) :
                    /\ \A j \in Holders(t, k) : j <= i
                    /\ package[t][k] = combined.parts[i][t][k]

\* cmp_functions("i8") and then the other module that defines `<` on i8
\* were combined: the entry of `<` on i8 is that of the second.
C28_Witness ==
    /\ Len(combined.parts) >= 2
    /\ combined.parts[1] = cmp_functions("i8")
    /\ << "<", <<"i8", "i8">> >> \in DOMAIN combined.parts[2].functions
    /\ combined.parts[2] # cmp_functions("i8")
    /\ package.functions[<< "<", <<"i8", "i8">> >>].func.fn = "lt_other"

-----------------------------------------------------------------------------
(* C29: the string parameter types *)

StringTypes == { "&str", "String", "ImmutableString" }

\* The registration has string parameters only.
AllStrings(r) == \A i \in 1..Len(r.params) : r.params[i] \in StringTypes

\* The signature key of a registration: the name, and the parameter types
\* with every string type replaced by ImmutableString.
KeyOf(r) ==
    << r.name, [i \in 1..Len(r.params) |->
                  IF r.params[i] \in StringTypes THEN "ImmutableString" ELSE r.params[i]] >>

\* C29: a function registered with parameters declared `&str`, String or
\* ImmutableString is held under the key in which each of them is
\* ImmutableString, so that registrations that differ only in the string
\* type of a position share one key; and a call with script strings
\* resolves to the latest registration of that name and number of string
\* parameters, whichever string types it declares, and runs it.
C29_StringTypesOneIdentity ==
    /\ DOMAIN functions = { KeyOf(log[i]) : i \in 1..Len(log) }
    /\ got.asked =>
          LET same == { i \in 1..Len(log) :
                          /\ log[i].name = got.name
                          /\ Len(log[i].params) = Len(got.params)
                          /\ AllStrings(log[i]) }
          IN IF same = {}
             THEN got.func = NoCallable /\ got.status = "ErrorFunctionNotFound"
             ELSE /\ got.status = "Ok"
                  /\ \E i \in same : /\ \A j \in same : j <= i
                                      /\ got.func = log[i].func

\* `write` was registered with a `&str` parameter and then with a String
\* parameter: there is one key, and write("...") ran the second function.
C29_Witness ==
    /\ Len(log) = 2
    /\ log[1].name = "write" /\ log[1].params = <<"&str">>
    /\ log[2].name = "write" /\ log[2].params = <<"String">>
    /\ Cardinality(DOMAIN functions) = 1
    /\ got.asked /\ got.name = "write" /\ got.status = "Ok"
    /\ got.func.fn = "write_out_string"

-----------------------------------------------------------------------------
(* C30: the static module resolver *)

\* C30: `import "path" as alias` binds the alias to the module inserted
\* under exactly that path string, and fails with the module-not-found
\* error naming the path when nothing was inserted under it, binding
\* nothing; alias::function and alias::CONSTANT then give the function
\* and the constant of the module the alias is bound to.
C30_StaticResolver ==
    /\ resolved.kind = "import" =>
          IF resolved.path \in DOMAIN resolver
          THEN /\ resolved.ok
               /\ resolved.alias \in DOMAIN imports
               /\ imports[resolved.alias] = resolver[resolved.path]
          ELSE /\ ~resolved.ok
               /\ resolved.error = "ErrorModuleNotFound"
               /\ resolved.name = resolved.path
               /\ imports = resolved.before
    /\ resolved.kind = "fn" =>
          LET fs == imports[resolved.alias].functions
              ks == { k \in DOMAIN fs : k[1] = resolved.name } IN
          IF ks = {} THEN ~resolved.ok
          ELSE resolved.ok /\ \E k \in ks : resolved.found = fs[k].func
    /\ resolved.kind = "const" =>
          LET vs == imports[resolved.alias].variables IN
          IF resolved.name \in DOMAIN vs
          THEN resolved.ok /\ resolved.found = vs[resolved.name]
          ELSE ~resolved.ok
    /\ \A a \in DOMAIN imports : \E p \in DOMAIN resolver : imports[a] = resolver[p]

\* advanced_math was inserted under "Math::Advanced" only; the import of
\* "math::advanced" failed with the error naming that path.
C30_Witness ==
    /\ DOMAIN resolver = { "Math::Advanced" }
    /\ resolver["Math::Advanced"] = advanced_math
    /\ resolved.kind = "import"
    /\ resolved.path = "math::advanced"
    /\ resolved.error = "ErrorModuleNotFound"

-----------------------------------------------------------------------------
(* C31: checked arithmetic *)

\* The result the mathematics gives for a call of add, sub, mul, neg or
\* abs.
MathResult(fn, x, y) ==
    CASE fn = "add" -> x + y
      [] fn = "sub" -> x - y
      [] fn = "mul" -> x * y
      [] fn = "neg" -> 0 - x
      [] fn = "abs" -> IF x < 0 THEN 0 - x ELSE x

\* v is the exact result of the call; for div, the quotient that leaves a
\* rest smaller in magnitude than y that is zero or has the sign of x, and
\* for modulo that rest, of which x differs by a multiple of y.
IsExact(fn, x, y, v) ==
    CASE fn = "div" -> LET r == x - v * y IN
                          /\ Magnitude(r) < Magnitude(y)
                          /\ r = 0 \/ (r < 0) = (x < 0)
      [] fn = "modulo" -> /\ Magnitude(v) < Magnitude(y)
                          /\ v = 0 \/ (v < 0) = (x < 0)
                          /\ Magnitude(x - v) % Magnitude(y) = 0
      [] OTHER -> v = MathResult(fn, x, y)

\* The exact result of the call is a value of the type T.  A division or
\* a modulo by zero has no exact result; MIN / -1 has one outside the
\* type; the remainder of MIN by -1 is 0, a value of every type.
Representable(fn, T, x, y) ==
    CASE fn = "div" -> /\ y # 0
                       /\ Magnitude(x) \div Magnitude(y) <=
                              (IF (x < 0) = (y < 0) THEN MAX(T) ELSE -MIN(T))
      [] fn = "modulo" -> y # 0
      [] OTHER -> MIN(T) <= MathResult(fn, x, y) /\ MathResult(fn, x, y) <= MAX(T)

IsArithmeticCall == calc.fn \in {"add", "sub", "mul", "div", "modulo", "neg", "abs"}

\* The call returned the ErrorArithmetic with a message and
\* Position::none().
ReportsArithmeticError ==
    /\ ~calc.result.ok
    /\ calc.result.error = "ErrorArithmetic"
    /\ calc.result.message # <<>>
    /\ calc.result.position = Position_none

\* The call returned Ok with the exact result, a value of the type.
ReturnsExact ==
    /\ calc.result.ok
    /\ calc.result.value \in MIN(calc.T)..MAX(calc.T)
    /\ IsExact(calc.fn, calc.x, calc.y, calc.result.value)

\* C31: a checked arithmetic function returns Ok with the exact result
\* when that result is representable in the type, and otherwise the
\* ErrorArithmetic with a message and Position::none(); it never returns
\* a wrapped value.
C31_CheckedArithmetic ==
    IsArithmeticCall =>
        IF Representable(calc.fn, calc.T, calc.x, calc.y)
        THEN ReturnsExact
        ELSE ReportsArithmeticError

\* The modulo of the least value of a signed type by -1: the remainder is
\* 0, but the division it is taken from overflows.
IsMinRem ==
    /\ calc.fn = "modulo"
    /\ calc.T.signed
    /\ calc.x = MIN(calc.T)
    /\ calc.y = -1

\* C31, amended: a checked arithmetic function returns Ok with the exact
\* result when that result is representable in the type, except that
\* modulo(MIN, -1) on a signed type returns the ErrorArithmetic although
\* its remainder 0 is representable; when the result is not representable
\* it returns the ErrorArithmetic with a message and Position::none(); it
\* never returns a wrapped value.
C31_CheckedArithmeticButMinRem ==
    IsArithmeticCall =>
        IF Representable(calc.fn, calc.T, calc.x, calc.y) /\ ~IsMinRem
        THEN ReturnsExact
        ELSE ReportsArithmeticError

\* The modulo of the least i8 by -1, whose remainder 0 is representable,
\* reported as the error.
C31_Witness ==
    /\ calc.fn = "modulo"
    /\ calc.T = i8
    /\ calc.x = MIN(i8)
    /\ calc.y = -1
    /\ Representable(calc.fn, calc.T, calc.x, calc.y)
    /\ ~calc.result.ok

-----------------------------------------------------------------------------
(* C40: checked shifts *)

\* x shifted by n bits in the type: to the left, the low bits of x * 2^n;
\* to the right, x / 2^n rounded down.
Shifted(fn, T, x, n) ==
    IF fn = "shl" THEN wrapping(T, x * Pow2(n)) ELSE x \div Pow2(n)

\* C40: shl and shr return the ErrorArithmetic for every count that is
\* negative or at least the bit width of the type, whatever INT it is, and
\* the shifted value for every other count.
C40_CheckedShifts ==
    calc.fn \in {"shl", "shr"} =>
        IF ShiftCount(calc.count, calc.T.bits) = -1
        THEN /\ ~calc.result.ok
             /\ calc.result.error = "ErrorArithmetic"
        ELSE /\ calc.result.ok
             /\ calc.result.value =
                   Shifted(calc.fn, calc.T, calc.x, ShiftCount(calc.count, calc.T.bits))

-----------------------------------------------------------------------------
(* C32: the write lock of a by-reference call *)

\* C32: the write lock on the first argument is held while the native
\* call is in progress and at no other time: it is released when the call
\* ends, whether the function returned a value or an error, so that the
\* next call on the same value gets the lock and an access made when no
\* call is in progress is never refused.
C32_LockReleased ==
    /\ frame.pc = "idle" => \A c \in LockCells : ~held[c]
    /\ frame.pc \in {"converted", "called"} =>
          \A c \in LockCells : held[c] <=> c = frame.cell
    /\ frame.pc # "panicked"
    /\ ~accessed.during => accessed.ok

\* A second call on a value has ended with an error, and the value was
\* then accessed.
C32_Witness ==
    /\ frame.pc = "idle"
    /\ frame.n >= 2
    /\ frame.r = "Err"
    /\ accessed.cell = frame.cell
    /\ accessed.after = "Err"
    /\ ~accessed.during
    /\ accessed.ok

-----------------------------------------------------------------------------
(* C33: call_fn and the caller's scope *)

\* The value of a variable of a scope, 0 when it has none of that name.
ValueIn(sc, name) ==
    IF find(sc, Len(sc), name) = 0 THEN 0 ELSE sc[find(sc, Len(sc), name)].value.v

HasVar(sc, name) == find(sc, Len(sc), name) # 0

\* C33: call_fn runs the function with the name and the number of
\* parameters of the call - hello(x, y) gives x + y, hello(x) gives x times
\* the scope's foo and sets foo to 1, hello() gives 41 plus the scope's
\* foo - against the caller's scope, which keeps what the function
\* changed: foo is 1 after hello(x), and otherwise every variable is as
\* it was before the call.
C33_CallFnScope ==
    outcome.kind = "call_fn" =>
        LET n == Len(outcome.args)
            foo == ValueIn(outcome.before, "foo")
            known == outcome.name = "hello" /\ n <= 2
            runs == known /\ (n = 2 \/ HasVar(outcome.before, "foo"))
        IN /\ ~known => outcome.error = "ErrorFunctionNotFound"
           /\ runs => /\ outcome.error = ""
                      /\ outcome.result.v =
                            CASE n = 2 -> outcome.args[1] + outcome.args[2]
                              [] n = 1 -> outcome.args[1] * foo
                              [] n = 0 -> 41 + foo
           /\ runs /\ n = 1 => ValueIn(scope, "foo") = 1
           /\ ~(runs /\ n = 1) => ValueIn(scope, "foo") = foo
           /\ Len(scope) = Len(outcome.before)
           /\ ValueIn(scope, "bar") = ValueIn(outcome.before, "bar")

\* hello() has returned 42 on a scope whose foo an earlier hello(123) set
\* to 1.
C33_Witness ==
    /\ outcome.kind = "call_fn"
    /\ outcome.n >= 2
    /\ outcome.name = "hello"
    /\ outcome.args = <<>>
    /\ outcome.result = Dynamic("INT", 42)
    /\ ValueIn(scope, "foo") = 1

-----------------------------------------------------------------------------
(* C34: the non_unary flag *)

\* C34: after a call that returned a token, non_unary is the negation of
\* the token's is_next_unary(); after a call that returned None it is what
\* it was before the call; and before the first call of a session it is
\* false.
C34_NonUnaryFollowsToken ==
    /\ last.status = "Some" => state.non_unary = ~is_next_unary(last.tok)
    /\ last.status = "None" => state.non_unary = last.state.non_unary
    /\ last.status = "NoCall" => ~state.non_unary

\* A token after which no unary operator can come was returned, and then
\* None: the flag is still set.
C34_Witness ==
    /\ prev.status = "Some"
    /\ ~is_next_unary(prev.tok)
    /\ last.status = "None"
    /\ state.non_unary

-----------------------------------------------------------------------------
(* C35: a list of streams and their concatenation *)

\* C35: the lexer of a list of streams and the lexer of the one stream
\* that is their concatenation return, call after call, the same token at
\* the same position, and are left in the same state at the same position
\* with the same characters still to read.
C35_StreamsAsConcatenation ==
    /\ twin.status = last.status
    /\ twin.tok = last.tok
    /\ twin.tpos = last.tpos
    /\ twin.state = state
    /\ twin.pos = pos
    /\ Remaining([streams |-> twin.streams, index |-> twin.index]) = stream

\* A string literal that began in the first stream and ended in the third
\* was returned.
C35_Witness ==
    /\ twin.status = "Some"
    /\ twin.tok.kind = "StringConstant"
    /\ twin.began = 1
    /\ twin.index = 3
    /\ last.tok = twin.tok

-----------------------------------------------------------------------------
(* C36: the comment level *)

\* The depth of block comments at the end of a text read from the depth d,
\* by the markers of the text: outside a comment "//" begins a line comment
\* that runs to the newline and "/*" a block comment; inside one "/*" adds
\* one to the depth and "*/" takes one off.
RECURSIVE AfterLine(_)
AfterLine(s) ==
    IF s = <<>> THEN <<>> ELSE IF Head(s) = CH.nl THEN Tail(s) ELSE AfterLine(Tail(s))

RECURSIVE DepthAtEnd(_, _)
DepthAtEnd(s, d) ==
    IF s = <<>> THEN d
    ELSE IF Len(s) >= 2 /\ s[1] = CH.slash /\ s[2] = CH.star
      THEN DepthAtEnd(Skip(s, 2), d + 1)
    ELSE IF d = 0 /\ Len(s) >= 2 /\ s[1] = CH.slash /\ s[2] = CH.slash
      THEN DepthAtEnd(AfterLine(Skip(s, 2)), 0)
    ELSE IF d > 0 /\ Len(s) >= 2 /\ s[1] = CH.star /\ s[2] = CH.slash
      THEN DepthAtEnd(Skip(s, 2), d - 1)
    ELSE DepthAtEnd(Tail(s), d)

\* C36: the comment level is never below zero, and after a call it is
\* above zero only when the call read the input to its end and the input
\* ends inside a block comment that no "*/" closes.
C36_CommentLevelOpenOnlyAtEnd ==
    /\ state.comment_level >= 0
    /\ Called(last) /\ state.comment_level > 0 =>
          /\ stream = <<>>
          /\ DepthAtEnd(last.input, last.state.comment_level) > 0

-----------------------------------------------------------------------------
(* C37: line numbers *)

\* The number of newline characters among the first k of a text.
RECURSIVE NewlinesIn(_, _)
NewlinesIn(s, k) ==
    IF k = 0 THEN 0
    ELSE (IF s[k] = CH.nl THEN 1 ELSE 0) + NewlinesIn(s, k - 1)

\* The number of characters the latest call consumed.
Consumed == Len(last.input) - Len(stream)

\* C37: a call moves the line of the lexer's position on by the number of
\* newline characters it consumed, wherever they are; the session begins
\* on line 1, so the line is always 1 plus the newlines consumed so far.
C37_LineCountsNewlines ==
    /\ last.status = "NoCall" => pos.line = 1
    /\ last.status \in {"Some", "None"} =>
          pos.line = last.pos.line + NewlinesIn(last.input, Consumed)

-----------------------------------------------------------------------------
(* C38: capturing comments *)

\* The latest call of the capturing lexer returned a token that is not a
\* Comment, or None.
NonCommentCall == Called(last) /\ ~(last.status = "Some" /\ last.tok.kind = "Comment")

\* C38: each token that is not a Comment, and its position, returned with
\* include_comments = true is the token and position returned at the same
\* place of the sequence with include_comments = false.
C38_CommentsDoNotChangeTokens ==
    NonCommentCall =>
        /\ twin.status = last.status
        /\ twin.tok = last.tok
        /\ twin.tpos = last.tpos

-----------------------------------------------------------------------------
(* C39: the empty char literal *)

\* The call met the empty char literal: two single quotes in a row where
\* a token begins.
IsEmptyCharLiteral(call) ==
    /\ Called(call)
    /\ call.state.comment_level = 0
    /\ Len(LiteralText(call)) >= 2
    /\ LiteralText(call)[1] = CH.squote
    /\ LiteralText(call)[2] = CH.squote

\* C39: on '' the call returns LexError MalformedChar with the empty text
\* at the opening quote and consumes that quote only, so the closing quote
\* heads the input left and the next call begins its token there.
C39_EmptyCharLiteral ==
    /\ IsEmptyCharLiteral(last) =>
          /\ last.status = "Some"
          /\ last.tok = LexError("MalformedChar", <<>>)
          /\ last.tpos = pos
          /\ stream = Tail(LiteralText(last))
          /\ Head(stream) = CH.squote
    /\ (IsEmptyCharLiteral(prev) /\ Called(last)) =>
          /\ last.input = Tail(LiteralText(prev))
          /\ last.status = "Some"
          /\ last.tpos.line = prev.tpos.line
          /\ last.tpos.pos >= prev.tpos.pos + 1

\* C39 happens: on ''a' the first call returned MalformedChar at the
\* opening quote, position 1, and the next call lexed the closing quote
\* and what follows it as the char literal 'a' at position 2.
C39_Witness ==
    /\ prev.input = <<39, 39, 97, 39>>
    /\ prev.tok = LexError("MalformedChar", <<>>)
    /\ prev.tpos = Position_new(1, 1)
    /\ last.input = <<39, 97, 39>>
    /\ last.tok = CharConstant(97)
    /\ last.tpos = Position_new(1, 2)

====
